---- MODULE Spec2Model ----
(***************************************************************************)
(* Model of the analytics of the hike-iq front end:                        *)
(*  - Spec, SpecHill: the hill-peak / heart-rate-recovery analysis of      *)
(*    src/src/components/HeartRateRecoveryTable.tsx (the hillPeaks memo);  *)
(*  - SpecDown: the five places that downsample an array for a chart;      *)
(*  - SpecChart: the data memos of ElevationAnalysisChart.tsx (vertical    *)
(*    rate) and of PaceHeartRateChart (pace, src/unnamed/part_002);        *)
(*  - SpecZone: the accumulation of time in zone.                          *)
(*                                                                         *)
(* Conventions.                                                            *)
(*  - For the hill-peak analysis a TrackRecord is modelled by the three    *)
(*    fields it reads: elapsedTime, altitude and heartRate.  (distance is  *)
(*    only copied into the output record and is left out.)                 *)
(*  - `number | null` is modelled as an option: Null is the empty tuple    *)
(*    and Some(v) the one-element tuple <<v>>, so that 0 and null differ.  *)
(*  - Sequences are 1-based: index i of the model is index i-1 of the      *)
(*    TypeScript arrays.                                                   *)
(***************************************************************************)
EXTENDS Integers, Sequences, FiniteSets, TLC

(***************************************************************************)
(* Option values (number | null).                                          *)
(***************************************************************************)
Null == << >>

Some(v) == << v >>

Val(o) == o[1]

Abs(x) == IF x < 0 THEN 0 - x ELSE x

(***************************************************************************)
(* Bounds of the input family.  An input series is a piecewise-linear      *)
(* track: a first sample followed by NumSeg segments of SegLen samples;     *)
(* inside a segment the recording interval and the altitude change per     *)
(* sample are constant.  Up to MaxDrop samples lack altitude or heart rate. *)
(***************************************************************************)
NumSeg == 4

SegLen == 5

MaxDrop == 2

\* A segment kind is << seconds between samples, altitude change per sample >>.
SegKinds == {<<30, 5>>, <<30, 0>>, <<30, 0 - 5>>, <<45, 0>>, <<90, 0 - 5>>}

SeriesLen == NumSeg * SegLen + 1

\* The segment of sample k >= 2 (sample 1 is the start of the track).
SegOf(k) == ((k - 2) \div SegLen) + 1

\* Heart rate climbs on the way up and falls slowly on the way down.
HrDelta(slope) == IF slope > 0 THEN 4 ELSE IF slope < 0 THEN 0 - 1 ELSE 0

\* The indices whose sample lacks a field: the d-th dropout is the sample
\* closing segment d (a junction of two segments); odd dropouts lack the
\* altitude, even ones the heart rate.
DropIndex(d) == d * SegLen + 1

MakeSeries(segs, nDrop) ==
  LET T[k \in 1..SeriesLen] ==
        IF k = 1 THEN 0 ELSE T[k - 1] + segs[SegOf(k)][1]
      A[k \in 1..SeriesLen] ==
        IF k = 1 THEN 0 ELSE A[k - 1] + segs[SegOf(k)][2]
      H[k \in 1..SeriesLen] ==
        IF k = 1 THEN 120 ELSE H[k - 1] + HrDelta(segs[SegOf(k)][2])
      NoAlt(k) == \E d \in 1..nDrop : d % 2 = 1 /\ k = DropIndex(d)
      NoHr(k) == \E d \in 1..nDrop : d % 2 = 0 /\ k = DropIndex(d)
  IN [k \in 1..SeriesLen |->
        [elapsedTime |-> T[k],
         altitude |-> IF NoAlt(k) THEN Null ELSE Some(A[k]),
         heartRate |-> IF NoHr(k) THEN Null ELSE Some(H[k])]]

InputSeries ==
  {MakeSeries(segs, nDrop) :
     segs \in [1..NumSeg -> SegKinds], nDrop \in 0..MaxDrop}

(***************************************************************************)
(* The thresholds of hillPeaks.                                            *)
(***************************************************************************)
minValidRecords == 20

peakWindowSeconds == 60

minProminence == 15

minTimeBetweenPeaks == 120

prominenceWindowSeconds == 300

matchToleranceSeconds == 15

RecoveryOffsets == {60, 120, 300}

(***************************************************************************)
(* validRecords = records.filter(altitude !== null && heartRate !== null)  *)
(***************************************************************************)
IsValidRecord(r) == r.altitude # Null /\ r.heartRate # Null

FilterValid(recs) == SelectSeq(recs, IsValidRecord)

\* Mutant: the minimum count is off by one.
TooFewRecords_OffByOne(vr) == Len(vr) < minValidRecords - 1

TooFewRecords(vr) == Len(vr) < minValidRecords

Alt(vr, i) == Val(vr[i].altitude)

Time(vr, i) == vr[i].elapsedTime

(***************************************************************************)
(* findRecordsInTimeWindow: walk backwards, then forwards, from centerIdx  *)
(* and stop in each direction at the first record outside the window.      *)
(***************************************************************************)
RECURSIVE LookBackwards(_, _, _, _)
LookBackwards(vr, centerIdx, windowSeconds, i) ==
  IF i < 1 THEN << >>
  ELSE IF Time(vr, centerIdx) - Time(vr, i) > windowSeconds THEN << >>
  ELSE << [idx |-> i, altitude |-> Alt(vr, i)] >>
         \o LookBackwards(vr, centerIdx, windowSeconds, i - 1)

RECURSIVE LookForwards(_, _, _, _)
LookForwards(vr, centerIdx, windowSeconds, i) ==
  IF i > Len(vr) THEN << >>
  ELSE IF Time(vr, i) - Time(vr, centerIdx) > windowSeconds THEN << >>
  ELSE << [idx |-> i, altitude |-> Alt(vr, i)] >>
         \o LookForwards(vr, centerIdx, windowSeconds, i + 1)

\* Mutant: the forward half of the window is forgotten.
findRecordsInTimeWindow_BackOnly(vr, centerIdx, windowSeconds) ==
  LookBackwards(vr, centerIdx, windowSeconds, centerIdx - 1)

findRecordsInTimeWindow(vr, centerIdx, windowSeconds) ==
  LookBackwards(vr, centerIdx, windowSeconds, centerIdx - 1)
    \o LookForwards(vr, centerIdx, windowSeconds, centerIdx + 1)

IsLocalMax(vr, i) ==
  LET neighbors == findRecordsInTimeWindow(vr, i, peakWindowSeconds)
  IN \A n \in 1..Len(neighbors) : Alt(vr, i) >= neighbors[n].altitude

(***************************************************************************)
(* Prominence: minimum altitude over the following records, stopping at    *)
(* the first one more than prominenceWindowSeconds after the candidate.    *)
(***************************************************************************)
\* The body of `for (let j = i + 1; j < validRecords.length; j++)`: the
\* loop state after index j.
MinAfterBody(vr, i, s, j) ==
  IF Time(vr, j) - Time(vr, i) > prominenceWindowSeconds
  THEN [s EXCEPT !.break = TRUE]
  ELSE [s EXCEPT !.minAfter = IF Alt(vr, j) < @ THEN Alt(vr, j) ELSE @]

\* The loop over the indices lo..hi, in increasing order, from the state s;
\* no index is visited once break is set.  (The range is halved rather than
\* peeled so that a loop over several hundred records stays shallow.)
RECURSIVE MinAfterRange(_, _, _, _, _)
MinAfterRange(vr, i, s, lo, hi) ==
  IF lo > hi \/ s.break THEN s
  ELSE IF lo = hi THEN MinAfterBody(vr, i, s, lo)
  ELSE LET mid == (lo + hi) \div 2
       IN MinAfterRange(vr, i, MinAfterRange(vr, i, s, lo, mid), mid + 1, hi)

MinAfterLoop(vr, i, j, minAfter) ==
  MinAfterRange(vr, i, [break |-> FALSE, minAfter |-> minAfter],
                j, Len(vr)).minAfter

\* Mutant: the minimum is taken over all following records, not only the
\* ones inside the prominence window.
RECURSIVE MinAfterLoop_NoWindow(_, _, _, _)
MinAfterLoop_NoWindow(vr, i, j, minAfter) ==
  IF j > Len(vr) THEN minAfter
  ELSE MinAfterLoop_NoWindow(vr, i, j + 1,
                    IF Alt(vr, j) < minAfter THEN Alt(vr, j) ELSE minAfter)

Prominence_NoWindow(vr, i) ==
  Alt(vr, i) - MinAfterLoop_NoWindow(vr, i, i + 1, Alt(vr, i))

Prominence(vr, i) == Alt(vr, i) - MinAfterLoop(vr, i, i + 1, Alt(vr, i))

\* Mutant: any candidate counts as prominent, whatever the drop after it.
ProminentEnough_AnyDrop(vr, i) == ~(Prominence(vr, i) < 0)

ProminentEnough(vr, i) == ~(Prominence(vr, i) < minProminence)

(***************************************************************************)
(* Spacing from the last accepted peak.                                    *)
(***************************************************************************)
\* Mutant: the spacing is compared with the peak window (60 s).
SpacedFromLastPeak_ShortGap(vr, pks, i) ==
  IF pks # << >>
  THEN LET lastPeak == pks[Len(pks)]
           timeDiff == Time(vr, i) - Time(vr, lastPeak)
       IN ~(timeDiff < peakWindowSeconds)
  ELSE TRUE

SpacedFromLastPeak(vr, pks, i) ==
  IF pks # << >>
  THEN LET lastPeak == pks[Len(pks)]
           timeDiff == Time(vr, i) - Time(vr, lastPeak)
       IN ~(timeDiff < minTimeBetweenPeaks)
  ELSE TRUE

\* Mutant: a candidate too close to the last peak replaces it when it is at
\* least as high (the scan backtracks).
ScanIndex_ReplaceLast(vr, pks, i) ==
  IF ~IsLocalMax(vr, i) THEN pks
  ELSE IF ~ProminentEnough(vr, i) THEN pks
  ELSE IF ~SpacedFromLastPeak(vr, pks, i)
       THEN IF Alt(vr, i) >= Alt(vr, pks[Len(pks)])
            THEN Append(SubSeq(pks, 1, Len(pks) - 1), i)
            ELSE pks
  ELSE Append(pks, i)

\* Mutant: the prominence test is left out.
ScanIndex_NoProminenceTest(vr, pks, i) ==
  IF ~IsLocalMax(vr, i) THEN pks
  ELSE IF ~SpacedFromLastPeak(vr, pks, i) THEN pks
  ELSE Append(pks, i)

\* One iteration of the scan loop `for (let i = 0; ...)`.
ScanIndex(vr, pks, i) ==
  IF ~IsLocalMax(vr, i) THEN pks
  ELSE IF ~ProminentEnough(vr, i) THEN pks
  ELSE IF ~SpacedFromLastPeak(vr, pks, i) THEN pks
  ELSE Append(pks, i)

(***************************************************************************)
(* findHRAtOffset: forward scan from the peak for the record closest to    *)
(* peakTime + offsetSeconds, with early termination.  closest is an index  *)
(* (0 for null); closestDiff is an option (Null for Infinity).             *)
(***************************************************************************)
DiffBelow(diff, closestDiff) == closestDiff = Null \/ diff < Val(closestDiff)

DiffAbove(diff, closestDiff) == closestDiff # Null /\ diff > Val(closestDiff)

\* The body of `for (let i = peakIdx; i < validRecords.length; i++)`: the
\* loop state after index i.
ClosestBody(vr, targetTime, s, i) ==
  LET diff == Abs(Time(vr, i) - targetTime)
      better == DiffBelow(diff, s.closestDiff)
      c2 == IF better THEN i ELSE s.closest
      d2 == IF better THEN Some(diff) ELSE s.closestDiff
  IN [break |-> Time(vr, i) > targetTime /\ DiffAbove(diff, d2),
      closest |-> c2,
      closestDiff |-> d2]

\* The loop over the indices lo..hi, in increasing order, from the state s;
\* no index is visited once break is set.
RECURSIVE ClosestRange(_, _, _, _, _)
ClosestRange(vr, targetTime, s, lo, hi) ==
  IF lo > hi \/ s.break THEN s
  ELSE IF lo = hi THEN ClosestBody(vr, targetTime, s, lo)
  ELSE LET mid == (lo + hi) \div 2
       IN ClosestRange(vr, targetTime,
                       ClosestRange(vr, targetTime, s, lo, mid), mid + 1, hi)

ClosestLoop(vr, targetTime, i, closest, closestDiff) ==
  LET end == ClosestRange(vr, targetTime,
                          [break |-> FALSE, closest |-> closest,
                           closestDiff |-> closestDiff],
                          i, Len(vr))
  IN [closest |-> end.closest, closestDiff |-> end.closestDiff]

\* Mutant: the loop stops at the first record past the target without
\* considering it.
RECURSIVE ClosestLoop_StopAtTarget(_, _, _, _, _)
ClosestLoop_StopAtTarget(vr, targetTime, i, closest, closestDiff) ==
  IF i > Len(vr) THEN [closest |-> closest, closestDiff |-> closestDiff]
  ELSE IF Time(vr, i) > targetTime /\ closest # 0
       THEN [closest |-> closest, closestDiff |-> closestDiff]
  ELSE LET diff == Abs(Time(vr, i) - targetTime)
           better == DiffBelow(diff, closestDiff)
       IN ClosestLoop_StopAtTarget(vr, targetTime, i + 1,
            IF better THEN i ELSE closest,
            IF better THEN Some(diff) ELSE closestDiff)

FindClosest_StopAtTarget(vr, peakIdx, offsetSeconds) ==
  ClosestLoop_StopAtTarget(vr, Time(vr, peakIdx) + offsetSeconds, peakIdx, 0, Null)

FindClosest(vr, peakIdx, offsetSeconds) ==
  ClosestLoop(vr, Time(vr, peakIdx) + offsetSeconds, peakIdx, 0, Null)

\* Mutant: the tolerance is exclusive.
WithinTolerance_Strict(closestDiff) ==
  closestDiff # Null /\ Val(closestDiff) < matchToleranceSeconds

WithinTolerance(closestDiff) ==
  closestDiff # Null /\ Val(closestDiff) <= matchToleranceSeconds

findHRAtOffset(vr, peakIdx, offsetSeconds) ==
  LET m == FindClosest(vr, peakIdx, offsetSeconds)
  IN IF m.closest # 0 /\ WithinTolerance(m.closestDiff)
        /\ vr[m.closest].heartRate # Null
     THEN vr[m.closest].heartRate
     ELSE Null

\* Mutant: the recovery is reported unsigned.
RecoveryValue_Unsigned(peakHR, hr) ==
  IF hr # Null THEN Some(Abs(peakHR - Val(hr))) ELSE Null

RecoveryValue(peakHR, hr) == IF hr # Null THEN Some(peakHR - Val(hr)) ELSE Null

MakeHillPeak(vr, peakIdx) ==
  LET hr1min == findHRAtOffset(vr, peakIdx, 60)
      hr2min == findHRAtOffset(vr, peakIdx, 120)
      hr5min == findHRAtOffset(vr, peakIdx, 300)
      peakHR == Val(vr[peakIdx].heartRate)
  IN [index |-> peakIdx,
      elapsedTime |-> Time(vr, peakIdx),
      altitude |-> Alt(vr, peakIdx),
      peakHR |-> peakHR,
      hr1min |-> hr1min,
      hr2min |-> hr2min,
      hr5min |-> hr5min,
      recovery1min |-> RecoveryValue(peakHR, hr1min),
      recovery2min |-> RecoveryValue(peakHR, hr2min),
      recovery5min |-> RecoveryValue(peakHR, hr5min)]

\* Mutant: only the 1-minute value is looked at.
HasRecoveryData_OnlyFirst(p) == p.recovery1min # Null

HasRecoveryData(p) ==
  p.recovery1min # Null \/ p.recovery2min # Null \/ p.recovery5min # Null

(***************************************************************************)
(* The computation as a state machine.                                     *)
(***************************************************************************)
VARIABLES records, validRecords, pc, i, peaks, hillPeakData, result

\* The other computations of the module run on variables of their own; each
\* specification keeps the variables of the others at rest.
VARIABLES site, series, sampled

VARIABLES units, track, elevationData, paceData, chartData

VARIABLES zoneSeries, zi, tally

\* The pages of the application: the units provider.
VARIABLES mounted, unitsState, storage, effectPending, pressLog, sessions

\* ImportButton and ImportProgressDialog, the import jobs of the backend,
\* the pending completion timers and the calls of onImport.
VARIABLES showProgress, totalFiles, importedActivities, files, currentIndex,
          completedCount, errorCount, listener, timers, jobs, onImportCalls,
          dismissed, imports

\* MapPage: the activity list, the selection, the displayed tracks, the
\* outstanding calls, and what the store answers for each activity.
VARIABLES mapActivities, selectedIds, tracks, listPending, trackLoads,
          toggles, store

\* ActivityDetailView: the activity prop, the three pieces of state and the
\* outstanding api.getActivity calls.
VARIABLES activity, detail, loading, error, requests, changes

\* MapView: the track layers and sources of the map and the calls of
\* addTracksToMap.
VARIABLES layers, sources, lastTracks, calls, addedTwice, fitted

\* ActivitiesPage: the in-memory list and the outstanding deletions.
VARIABLES activities, deleting, backendIds, deletions

hillVars == << records, validRecords, pc, i, peaks, hillPeakData, result >>

downVars == << site, series, sampled >>

chartVars == << units, track, elevationData, paceData, chartData >>

zoneVars == << zoneSeries, zi, tally >>

analyticVars == << hillVars, downVars, chartVars, zoneVars >>

unitsVars ==
  << mounted, unitsState, storage, effectPending, pressLog, sessions >>

dialogVars == << files, currentIndex, completedCount, errorCount >>

importVars ==
  << showProgress, totalFiles, importedActivities, dialogVars, listener,
     timers, jobs, onImportCalls, dismissed, imports >>

mapPageVars ==
  << mapActivities, selectedIds, tracks, listPending, trackLoads, toggles,
     store >>

detailVars == << activity, detail, loading, error, requests, changes >>

layerVars == << layers, sources, lastTracks, calls, addedTwice, fitted >>

listVars == << activities, deleting, backendIds, deletions >>

pageVars ==
  << unitsVars, importVars, mapPageVars, detailVars, layerVars, listVars >>

\* The groups a page leaves alone.
notUnitsVars ==
  << importVars, mapPageVars, detailVars, layerVars, listVars >>

notImportVars ==
  << unitsVars, mapPageVars, detailVars, layerVars, listVars >>

notMapPageVars ==
  << unitsVars, importVars, detailVars, layerVars, listVars >>

notDetailVars ==
  << unitsVars, importVars, mapPageVars, layerVars, listVars >>

notLayerVars ==
  << unitsVars, importVars, mapPageVars, detailVars, listVars >>

notListVars ==
  << unitsVars, importVars, mapPageVars, detailVars, layerVars >>

vars == << analyticVars, pageVars >>

HillAtRest ==
  /\ records = << >>
  /\ validRecords = << >>
  /\ pc = "rest"
  /\ i = 1
  /\ peaks = << >>
  /\ hillPeakData = << >>
  /\ result = << >>

DownAtRest == site = "rest" /\ series = << >> /\ sampled = << >>

ChartAtRest ==
  /\ units = "rest"
  /\ track = << >>
  /\ elevationData = Null
  /\ paceData = Null
  /\ chartData = Null

ZoneAtRest == zoneSeries = << >> /\ zi = 1 /\ tally = << >>

UnitsAtRest ==
  /\ mounted = FALSE
  /\ unitsState = "rest"
  /\ storage = Null
  /\ effectPending = FALSE
  /\ pressLog = << >>
  /\ sessions = 0

AnalyticsAtRest == HillAtRest /\ DownAtRest /\ ChartAtRest /\ ZoneAtRest

ImportAtRest ==
  /\ showProgress = FALSE
  /\ totalFiles = 0
  /\ importedActivities = << >>
  /\ files = << >>
  /\ currentIndex = 0
  /\ completedCount = 0
  /\ errorCount = 0
  /\ listener = Null
  /\ timers = << >>
  /\ jobs = << >>
  /\ onImportCalls = << >>
  /\ dismissed = FALSE
  /\ imports = 0

MapPageAtRest ==
  /\ mapActivities = << >>
  /\ selectedIds = << >>
  /\ tracks = << >>
  /\ listPending = FALSE
  /\ trackLoads = << >>
  /\ toggles = 0
  /\ store = << >>

DetailAtRest ==
  /\ activity = Null
  /\ detail = Null
  /\ loading = FALSE
  /\ error = Null
  /\ requests = << >>
  /\ changes = 0

LayersAtRest ==
  /\ layers = {}
  /\ sources = {}
  /\ lastTracks = << >>
  /\ calls = 0
  /\ addedTwice = FALSE
  /\ fitted = Null

ListAtRest ==
  /\ activities = << >>
  /\ deleting = << >>
  /\ backendIds = {}
  /\ deletions = 0

PagesAtRest ==
  /\ UnitsAtRest
  /\ ImportAtRest
  /\ MapPageAtRest
  /\ DetailAtRest
  /\ LayersAtRest
  /\ ListAtRest

Init ==
  /\ records \in InputSeries
  /\ validRecords = << >>
  /\ pc = "filter"
  /\ i = 1
  /\ peaks = << >>
  /\ hillPeakData = << >>
  /\ result = << >>
  /\ DownAtRest /\ ChartAtRest /\ ZoneAtRest /\ PagesAtRest

\* Lines 47-51: build validRecords; return [] when there are fewer than 20.
FilterRecords ==
  /\ pc = "filter"
  /\ validRecords' = FilterValid(records)
  /\ pc' = IF TooFewRecords(FilterValid(records)) THEN "done" ELSE "scan"
  /\ UNCHANGED << records, i, peaks, hillPeakData, result >>
  /\ UNCHANGED << downVars, chartVars, zoneVars, pageVars >>

\* Mutant: the spacing is measured from the last accepted peak that will be
\* emitted, so a peak without recovery data suppresses nothing.
ScanStep_SpacingFromEmitted ==
  /\ pc = "scan"
  /\ i <= Len(validRecords)
  /\ LET emitted ==
          SelectSeq(peaks,
                    LAMBDA p : HasRecoveryData(MakeHillPeak(validRecords, p)))
     IN peaks' = IF /\ IsLocalMax(validRecords, i)
                    /\ ProminentEnough(validRecords, i)
                    /\ SpacedFromLastPeak(validRecords, emitted, i)
                 THEN Append(peaks, i)
                 ELSE peaks
  /\ i' = i + 1
  /\ UNCHANGED << records, validRecords, pc, hillPeakData, result >>
  /\ UNCHANGED << downVars, chartVars, zoneVars, pageVars >>

\* Lines 82-113: one iteration of the scan loop.
ScanStep ==
  /\ pc = "scan"
  /\ i <= Len(validRecords)
  /\ peaks' = ScanIndex(validRecords, peaks, i)
  /\ i' = i + 1
  /\ UNCHANGED << records, validRecords, pc, hillPeakData, result >>
  /\ UNCHANGED << downVars, chartVars, zoneVars, pageVars >>

\* Lines 116-164: peaks.map(...) once the loop has ended.
ComputeRecovery ==
  /\ pc = "scan"
  /\ i > Len(validRecords)
  /\ hillPeakData' = [k \in 1..Len(peaks) |-> MakeHillPeak(validRecords, peaks[k])]
  /\ pc' = "recovered"
  /\ UNCHANGED << records, validRecords, i, peaks, result >>
  /\ UNCHANGED << downVars, chartVars, zoneVars, pageVars >>

\* Lines 167-172: drop the peaks without any recovery data and return.
FilterPeaks ==
  /\ pc = "recovered"
  /\ result' = SelectSeq(hillPeakData, HasRecoveryData)
  /\ pc' = "done"
  /\ UNCHANGED << records, validRecords, i, peaks, hillPeakData >>
  /\ UNCHANGED << downVars, chartVars, zoneVars, pageVars >>

Next == FilterRecords \/ ScanStep \/ ComputeRecovery \/ FilterPeaks

Spec == Init /\ [][Next]_vars

(***************************************************************************)
(* Reference notions used to state the properties.  They are written as    *)
(* set comprehensions over the valid records, without the loops' early     *)
(* exits.                                                                  *)
(***************************************************************************)
SetMin(S) == CHOOSE m \in S : \A x \in S : m <= x

TimesNonDecreasing(vr) ==
  \A k \in 1..(Len(vr) - 1) : Time(vr, k) <= Time(vr, k + 1)

ScanFinished == pc \in {"recovered", "done"} /\ ~TooFewRecords(validRecords)

PeakSet == {peaks[k] : k \in 1..Len(peaks)}

\* The valid samples after p that are at most prominenceWindowSeconds later.
FollowersInWindow(vr, p) ==
  {j \in (p + 1)..Len(vr) : Time(vr, j) - Time(vr, p) <= prominenceWindowSeconds}

RefProminence(vr, p) ==
  IF FollowersInWindow(vr, p) = {} THEN 0
  ELSE Alt(vr, p) - SetMin({Alt(vr, j) : j \in FollowersInWindow(vr, p)})

\* The other valid samples at most peakWindowSeconds away, in both directions.
NeighboursInWindow(vr, p) ==
  {j \in 1..Len(vr) :
     j # p /\ Abs(Time(vr, j) - Time(vr, p)) <= peakWindowSeconds}

RefLocalMax(vr, p) == \A j \in NeighboursInWindow(vr, p) : Alt(vr, p) >= Alt(vr, j)

\* C1: with non-decreasing elapsedTime, the peaks accepted by the scan are
\* strictly increasing in elapsedTime and consecutive accepted peaks are at
\* least 120 seconds apart.
C1_PeaksSpaced ==
  (ScanFinished /\ TimesNonDecreasing(validRecords)) =>
    \A k \in 1..(Len(peaks) - 1) :
      /\ Time(validRecords, peaks[k]) < Time(validRecords, peaks[k + 1])
      /\ Time(validRecords, peaks[k + 1]) - Time(validRecords, peaks[k]) >= 120

\* The scan has ended with several peaks, and a candidate that passed the
\* local-maximum and prominence tests was turned down by the spacing test.
C1_Witness ==
  /\ ScanFinished
  /\ Len(peaks) >= 3
  /\ \E j \in 1..Len(validRecords) :
       /\ j \notin PeakSet
       /\ IsLocalMax(validRecords, j)
       /\ ProminentEnough(validRecords, j)

\* C2: every accepted peak has prominence >= 15 over the valid samples that
\* follow it within 300 seconds.
C2_PeaksProminent ==
  ScanFinished => \A p \in PeakSet : RefProminence(validRecords, p) >= 15

\* A peak was accepted with prominence exactly 15, while a local maximum
\* with a smaller drop behind it was turned down.
C2_Witness ==
  /\ ScanFinished
  /\ \E p \in PeakSet : RefProminence(validRecords, p) = 15
  /\ \E j \in 1..Len(validRecords) :
       /\ IsLocalMax(validRecords, j)
       /\ RefProminence(validRecords, j) \in 1..14

\* C3: every accepted peak is at least as high as every other valid sample
\* at most 60 seconds away, before or after it.
C3_PeaksAreLocalMax ==
  ScanFinished =>
    \A p \in PeakSet :
      \A j \in 1..Len(validRecords) :
        (j # p /\ Abs(Time(validRecords, j) - Time(validRecords, p)) <= 60)
          => Alt(validRecords, p) >= Alt(validRecords, j)

\* An accepted peak has neighbours on both sides within 60 seconds, one of
\* them at the peak's own altitude.
C3_Witness ==
  /\ ScanFinished
  /\ \E p \in PeakSet :
       /\ \E j \in NeighboursInWindow(validRecords, p) : j < p
       /\ \E j \in NeighboursInWindow(validRecords, p) : j > p
       /\ \E j \in NeighboursInWindow(validRecords, p) :
            Alt(validRecords, j) = Alt(validRecords, p)

(***************************************************************************)
(* Reference notions for the recovery lookup: an exhaustive search over    *)
(* all valid samples from the peak onwards.                                *)
(***************************************************************************)
DiffTo(vr, p, offset, j) == Abs(Time(vr, j) - (Time(vr, p) + offset))

RefClosestDiff(vr, p, offset) ==
  SetMin({DiffTo(vr, p, offset, j) : j \in p..Len(vr)})

RefClosest(vr, p, offset) ==
  LET best == RefClosestDiff(vr, p, offset)
  IN SetMin({j \in p..Len(vr) : DiffTo(vr, p, offset, j) = best})

RefMatched(vr, p, offset) == RefClosestDiff(vr, p, offset) <= 15

HrAt(h, offset) ==
  CASE offset = 60 -> h.hr1min [] offset = 120 -> h.hr2min [] offset = 300 -> h.hr5min

RecoveryAt(h, offset) ==
  CASE offset = 60 -> h.recovery1min
    [] offset = 120 -> h.recovery2min
    [] offset = 300 -> h.recovery5min

HillPeakSet == {hillPeakData[k] : k \in 1..Len(hillPeakData)}

ResultSet == {result[k] : k \in 1..Len(result)}

ValidCount(recs) ==
  Cardinality({k \in 1..Len(recs) :
                 recs[k].altitude # Null /\ recs[k].heartRate # Null})

\* C4: with non-decreasing elapsedTime, for every accepted peak and every
\* offset in {60, 120, 300} the forward scan with early termination selects
\* the sample an exhaustive search from the peak onwards selects: the
\* earliest of the samples closest in time to peak time + offset.
C4_EarlyExitIsExhaustive ==
  (ScanFinished /\ TimesNonDecreasing(validRecords)) =>
    \A p \in PeakSet : \A offset \in RecoveryOffsets :
      FindClosest(validRecords, p, offset).closest
        = RefClosest(validRecords, p, offset)

\* For some accepted peak and offset the scan stopped before the end of the
\* series, a later sample being as close to the target as the selected one.
C4_Witness ==
  /\ ScanFinished
  /\ \E p \in PeakSet : \E offset \in RecoveryOffsets :
       LET c == FindClosest(validRecords, p, offset).closest
       IN /\ c + 1 < Len(validRecords)
          /\ Time(validRecords, c) # Time(validRecords, c + 1)
          /\ DiffTo(validRecords, p, offset, c + 1)
               = DiffTo(validRecords, p, offset, c)
          /\ DiffTo(validRecords, p, offset, c + 2)
               > DiffTo(validRecords, p, offset, c)

\* C5: an offset has a recovery value if and only if the closest forward
\* sample is at most 15 seconds (inclusive) from peak time + offset;
\* otherwise the value is null.
C5_MatchIffWithin15 ==
  \A h \in HillPeakSet : \A offset \in RecoveryOffsets :
    (RecoveryAt(h, offset) # Null)
      <=> (RefClosestDiff(validRecords, h.index, offset) <= 15)

\* One offset of a peak matched a sample exactly 15 seconds off its target,
\* another offset of the same peak found nothing within 15 seconds.
C5_Witness ==
  \E h \in HillPeakSet : \E o1, o2 \in RecoveryOffsets :
    /\ RefClosestDiff(validRecords, h.index, o1) = 15
    /\ RecoveryAt(h, o1) # Null
    /\ RefClosestDiff(validRecords, h.index, o2) > 15
    /\ RecoveryAt(h, o2) = Null

\* C6: a matched offset reports peak heart rate minus the matched sample's
\* heart rate, signed; an unmatched offset reports null, never 0.
C6_RecoveryIsSignedDifference ==
  \A h \in HillPeakSet : \A offset \in RecoveryOffsets :
    IF RefMatched(validRecords, h.index, offset)
    THEN RecoveryAt(h, offset)
           = Some(Val(validRecords[h.index].heartRate)
                  - Val(validRecords[RefClosest(validRecords, h.index, offset)].heartRate))
    ELSE RecoveryAt(h, offset) = Null /\ RecoveryAt(h, offset) # Some(0)

\* The computed records hold a matched offset whose sample has a higher
\* heart rate than the peak (a negative recovery) and an unmatched offset.
C6_Witness ==
  /\ \E h \in HillPeakSet : \E offset \in RecoveryOffsets :
       RecoveryAt(h, offset) # Null /\ Val(RecoveryAt(h, offset)) < 0
  /\ \E h \in HillPeakSet : \E offset \in RecoveryOffsets :
       RecoveryAt(h, offset) = Null

\* C7: a record is returned for an accepted peak if and only if at least
\* one of its three offsets matched; the other accepted peaks are left out.
C7_EmittedIffSomeMatch ==
  (pc = "done" /\ ~TooFewRecords(validRecords)) =>
    /\ \A r \in ResultSet : r.index \in PeakSet
    /\ \A p \in PeakSet :
         (\E r \in ResultSet : r.index = p)
           <=> (\E offset \in RecoveryOffsets : RefMatched(validRecords, p, offset))

\* The analysis returned a record for one accepted peak and left out another.
C7_Witness ==
  /\ pc = "done"
  /\ \E p \in PeakSet : \E r \in ResultSet : r.index = p
  /\ \E p \in PeakSet : \A r \in ResultSet : r.index # p

\* C8: with fewer than 20 samples having both altitude and heart rate, the
\* analysis ends normally with an empty list, whatever the altitudes are.
C8_SparseSeriesGivesEmpty ==
  (pc # "filter" /\ ValidCount(records) < 20) =>
    /\ pc = "done"
    /\ peaks = << >>
    /\ hillPeakData = << >>
    /\ result = << >>

\* The analysis ended on a series of 19 valid samples among which a sample
\* passes the local-maximum and prominence tests.
C8_Witness ==
  /\ pc = "done"
  /\ ValidCount(records) = 19
  /\ \E j \in 1..Len(validRecords) :
       IsLocalMax(validRecords, j) /\ ProminentEnough(validRecords, j)

(***************************************************************************)
(* Reference notions for the greedy scan.                                  *)
(***************************************************************************)
IsPrefix(s, t) == Len(s) <= Len(t) /\ \A k \in 1..Len(s) : s[k] = t[k]

\* The first two tests, stated over the sets of samples in the windows.
PassesFirstTwoTests(vr, j) == RefLocalMax(vr, j) /\ RefProminence(vr, j) >= 15

SpacedFrom(vr, pks, j) ==
  pks = << >> \/ Time(vr, j) - Time(vr, pks[Len(pks)]) >= 120

\* The plateaus << a, b >>: the maximal runs a..b of two or more consecutive
\* valid samples of equal altitude that all pass the first two tests.
Plateaus(vr) ==
  LET cand == {j \in 1..Len(vr) : PassesFirstTwoTests(vr, j)}
      Same(a, j) == j \in cand /\ Alt(vr, j) = Alt(vr, a)
  IN {pl \in cand \X cand :
        /\ pl[1] < pl[2]
        /\ \A j \in pl[1]..pl[2] : Same(pl[1], j)
        /\ (pl[1] = 1 \/ ~Same(pl[1], pl[1] - 1))
        /\ (pl[2] = Len(vr) \/ ~Same(pl[1], pl[2] + 1))}

\* The peaks accepted before index a, in scan order.
PeaksBefore(a) == SelectSeq(peaks, LAMBDA p : p < a)

\* Each scan step accepts index i exactly when it passes the three tests,
\* and otherwise leaves the accepted list alone; no step ever removes or
\* replaces an accepted peak.
C9_StepRule ==
  /\ IsPrefix(peaks, peaks')
  /\ IF pc = "scan" /\ i <= Len(validRecords)
     THEN peaks' = IF /\ PassesFirstTwoTests(validRecords, i)
                      /\ SpacedFrom(validRecords, peaks, i)
                   THEN Append(peaks, i)
                   ELSE peaks
     ELSE peaks' = peaks

\* On every plateau the earliest sample is accepted.
C9_PlateauEarliestAccepted ==
  ScanFinished =>
    \A pl \in Plateaus(validRecords) : pl[1] \in PeakSet

\* On every plateau the earliest sample that is at least 120 s after the
\* peak accepted last before the plateau (the earliest sample of the
\* plateau when there is no such peak) is accepted, and no plateau sample
\* before it is.
C9_PlateauEarliestSpacedAccepted ==
  ScanFinished =>
    \A pl \in Plateaus(validRecords) :
      LET before == PeaksBefore(pl[1])
      IN \A e \in pl[1]..pl[2] :
           (/\ SpacedFrom(validRecords, before, e)
            /\ \A j \in pl[1]..(e - 1) : ~SpacedFrom(validRecords, before, j))
             => (e \in PeakSet /\ \A j \in pl[1]..(e - 1) : j \notin PeakSet)

\* C9 (as stated): the scan is greedy and never backtracks, and on a plateau
\* of equal-altitude samples that all pass the first two tests the earliest
\* sample is the one accepted.
C9_Original == [][C9_StepRule]_vars /\ []C9_PlateauEarliestAccepted

\* C9 (amended): the scan is greedy and never backtracks: a candidate is
\* accepted exactly when it passes the local-maximum and prominence tests
\* and is at least 120 s after the most recently accepted peak, and the
\* accepted list only ever grows at its end.  On a plateau the first sample
\* accepted is the earliest one that is at least 120 s after the most
\* recently accepted peak, which is the earliest sample of the plateau only
\* when no peak was accepted less than 120 s before it.
C9_GreedyNoBacktracking ==
  [][C9_StepRule]_vars /\ []C9_PlateauEarliestSpacedAccepted

\* The scan ended on a series with a plateau whose earliest sample was
\* turned down by the spacing test and whose later sample was accepted.
C9_Witness ==
  /\ ScanFinished
  /\ \E pl \in Plateaus(validRecords) :
       /\ pl[1] \notin PeakSet
       /\ \E j \in (pl[1] + 1)..pl[2] : j \in PeakSet

ConstantAltitude(recs) ==
  \A k, l \in 1..Len(recs) :
    (recs[k].altitude # Null /\ recs[l].altitude # Null)
      => recs[k].altitude = recs[l].altitude

\* C10: a series whose altitude is the same at every sample yields no peak
\* and an empty result.
C10_FlatTraceGivesEmpty ==
  ConstantAltitude(records) =>
    peaks = << >> /\ hillPeakData = << >> /\ result = << >>

\* The analysis ended on a flat series of at least 20 valid samples recorded
\* at uneven intervals.
C10_Witness ==
  /\ pc = "done"
  /\ ConstantAltitude(records)
  /\ ~TooFewRecords(validRecords)
  /\ \E k, l \in 2..Len(validRecords) :
       Time(validRecords, k) - Time(validRecords, k - 1)
         # Time(validRecords, l) - Time(validRecords, l - 1)

(***************************************************************************)
(* The single symmetric hill: twenty minutes sampled once a second.  The   *)
(* altitude is 0 for five minutes, climbs to 100 during the next five,     *)
(* falls back to 0 during the five after that and stays there; the heart   *)
(* rate is 130 until the climb starts, reaches 170 at the apex, decays     *)
(* linearly to 140 during the five minutes after it and stays there.       *)
(* Values are recorded in whole metres and whole beats; they are exact at  *)
(* the apex and 60, 120 and 300 seconds after it.                          *)
(***************************************************************************)
HillAltitude(t) ==
  IF t <= 300 THEN 0
  ELSE IF t <= 600 THEN (t - 300) \div 3
  ELSE IF t <= 900 THEN 100 - ((t - 600) \div 3)
  ELSE 0

HillHeartRate(t) ==
  IF t <= 300 THEN 130
  ELSE IF t <= 600 THEN 130 + ((2 * (t - 300)) \div 15)
  ELSE IF t <= 900 THEN 170 - ((t - 600) \div 10)
  ELSE 140

HillSeries ==
  [k \in 1..1200 |->
     [elapsedTime |-> k - 1,
      altitude |-> Some(HillAltitude(k - 1)),
      heartRate |-> Some(HillHeartRate(k - 1))]]

InitHill ==
  /\ records = HillSeries
  /\ validRecords = << >>
  /\ pc = "filter"
  /\ i = 1
  /\ peaks = << >>
  /\ hillPeakData = << >>
  /\ result = << >>
  /\ DownAtRest /\ ChartAtRest /\ ZoneAtRest /\ PagesAtRest

SpecHill == InitHill /\ [][Next]_vars

\* C11: on the single-hill series the scan accepts no sample but the altitude
\* apex (the sample at 600 s, the highest of the series) and the analysis
\* returns exactly one record, located there; its 60 s and 120 s recovery
\* values are present and positive and its 300 s recovery value is 30.
C11_SingleHillScenario ==
  /\ \A k \in 1..Len(peaks) : Time(validRecords, peaks[k]) = 600
  /\ pc = "done" =>
    /\ Len(result) = 1
    /\ result[1].elapsedTime = 600
    /\ \A k \in 1..Len(records) : Val(records[k].altitude) <= result[1].altitude
    /\ result[1].recovery1min # Null /\ Val(result[1].recovery1min) > 0
    /\ result[1].recovery2min # Null /\ Val(result[1].recovery2min) > 0
    /\ result[1].recovery5min = Some(30)

C11_Witness ==
  /\ pc = "done"
  /\ records = HillSeries
  /\ Len(validRecords) = 1200
  /\ Len(peaks) = 1
  /\ result[1].peakHR = 170

(***************************************************************************)
(* Downsampling.  Five places reduce an array to every step-th element     *)
(* with `filter((_, i) => i % step === 0)`; they differ in how the step is *)
(* computed from the length and from the number of points aimed at.        *)
(***************************************************************************)
MaxSeriesLen == 1000

elevationMaxPoints == 300

paceMaxPoints == 300

zoneChartMaxPoints == 500

timelineMaxPoints == 500

profileMaxPoints == 200

Max(a, b) == IF a > b THEN a ELSE b

Min(a, b) == IF a < b THEN a ELSE b

\* Math.floor(n / m) for n >= 0 and m > 0.
FloorDiv(n, m) == n \div m

\* Mutant: the quotient is always rounded up to the next integer.
CeilDiv_NextInteger(n, m) == (n \div m) + 1

\* Math.ceil(n / m) for n >= 0 and m > 0.
CeilDiv(n, m) == (n + m - 1) \div m

\* `i % step === 0` for the 0-based index i; i % 0 is NaN, which is not 0.
IndexIsKept(i0, step) == step # 0 /\ i0 % step = 0

\* arr.filter((_, i) => i % step === 0)
KeepEvery(arr, step) ==
  LET kept == SelectSeq([k \in 1..Len(arr) |-> k],
                        LAMBDA k : IndexIsKept(k - 1, step))
  IN [m \in 1..Len(kept) |-> arr[kept[m]]]

\* ElevationAnalysisChart: step = Math.ceil(points.length / 300).
ElevationSampled(points) ==
  KeepEvery(points, CeilDiv(Len(points), elevationMaxPoints))

\* PaceHeartRateChart: step = Math.ceil(points.length / 300).
PaceSampled(points) == KeepEvery(points, CeilDiv(Len(points), paceMaxPoints))

\* HeartRateZoneChartV2: sampleRate = Math.max(1, Math.floor(n / maxPoints)).
downsample(recs, maxPoints) ==
  KeepEvery(recs, Max(1, FloorDiv(Len(recs), maxPoints)))

ZoneChartSampled(recs) == downsample(recs, zoneChartMaxPoints)

\* HrTimelineChart: sampleRate = Math.max(1, Math.floor(n / 500)).
TimelineSampled(recs) ==
  KeepEvery(recs, Max(1, FloorDiv(Len(recs), timelineMaxPoints)))

\* HeartRateRecoveryTable chartData: step = Math.max(1, Math.floor(n / 200)).
ProfileSampled(vr) ==
  IF Len(vr) = 0 THEN << >>
  ELSE KeepEvery(vr, Max(1, FloorDiv(Len(vr), profileMaxPoints)))

\* The array handed to a site; a sample is named by its 0-based index in it.
SeriesOfLength(n) == [k \in 1..n |-> k - 1]

InitDown ==
  /\ site = "ready"
  /\ series \in {SeriesOfLength(n) : n \in 0..MaxSeriesLen}
  /\ sampled = << >>
  /\ HillAtRest /\ ChartAtRest /\ ZoneAtRest /\ PagesAtRest

SampleAt(name, out) ==
  /\ site = "ready"
  /\ site' = name
  /\ sampled' = out
  /\ UNCHANGED << series, hillVars, chartVars, zoneVars, pageVars >>

SampleElevation == SampleAt("elevation", ElevationSampled(series))

SamplePace == SampleAt("pace", PaceSampled(series))

SampleZoneChart == SampleAt("zoneChart", ZoneChartSampled(series))

SampleTimeline == SampleAt("timeline", TimelineSampled(series))

SampleProfile == SampleAt("profile", ProfileSampled(series))

NextDown ==
  \/ SampleElevation
  \/ SamplePace
  \/ SampleZoneChart
  \/ SampleTimeline
  \/ SampleProfile

SpecDown == InitDown /\ [][NextDown]_vars

\* The stride the specification names: the least s with s * M >= n.
RefStride(n, M) == CHOOSE st \in 1..n : st * M >= n /\ (st - 1) * M < n

\* The number of points a site aims at.
Budget(name) ==
  CASE name = "elevation" -> elevationMaxPoints
    [] name = "pace" -> paceMaxPoints
    [] name = "zoneChart" -> zoneChartMaxPoints
    [] name = "timeline" -> timelineMaxPoints
    [] name = "profile" -> profileMaxPoints

SampledSet == {sampled[m] : m \in 1..Len(sampled)}

\* C12: in the elevation and pace charts, for n > 0 samples and the stride
\* s = ceil(n / 300), the downsampled array holds exactly the samples at the
\* indices 0, s, 2s, ... in increasing order, the first sample included, and
\* it is the whole array when n <= 300.
C12_EveryStrideth ==
  (site \in {"elevation", "pace"} /\ Len(series) > 0) =>
    LET n == Len(series)
        st == RefStride(n, 300)
    IN /\ SampledSet = {q * st : q \in 0..(n - 1)} \cap (0..(n - 1))
       /\ \A m \in 1..(Len(sampled) - 1) : sampled[m] < sampled[m + 1]
       /\ sampled[1] = series[1]
       /\ (n <= 300 => sampled = series)

C12_Witness ==
  /\ site = "pace"
  /\ Len(series) = 601
  /\ sampled[2] = 3
  /\ Len(sampled) = 201

\* C13: at every site and for every n > 0, the downsampled array has at most
\* as many points as the site aims at (300, 300, 500, 500 and 200).
C13_AtMostBudget ==
  (site \notin {"ready", "rest"} /\ Len(series) > 0) =>
    Len(sampled) <= Budget(site)

(***************************************************************************)
(* Numbers of the two chart computations.  A JavaScript number is modelled *)
(* by the exact fraction it stands for: << numerator, denominator >> in    *)
(* lowest terms with a positive denominator, so that equal values are      *)
(* equal tuples.  (Rounding of the floating-point operations is not        *)
(* modelled.)                                                              *)
(***************************************************************************)
RECURSIVE Gcd(_, _)
Gcd(a, b) == IF b = 0 THEN a ELSE Gcd(b, a % b)

\* n / d for d > 0.
Rat(n, d) == LET g == Gcd(Abs(n), d) IN << n \div g, d \div g >>

RatOfInt(k) == << k, 1 >>

RatMul(a, b) ==
  LET g1 == Gcd(Abs(a[1]), b[2])
      g2 == Gcd(Abs(b[1]), a[2])
  IN Rat((a[1] \div g1) * (b[1] \div g2), (a[2] \div g2) * (b[2] \div g1))

\* a / b for b > 0.
RatDiv(a, b) == RatMul(a, << b[2], b[1] >>)

RatLess(a, b) == a[1] * b[2] < b[1] * a[2]

\* `if (x)` on a `number | null`: null and 0 are falsy.
Truthy(x) == x # Null /\ Val(x) # 0

(***************************************************************************)
(* The tracks handed to the charts: NumBlocks blocks of BlockLen samples,  *)
(* cut after any number of samples.  Within a block the recording          *)
(* interval, the climb per sample and the speed are constant.  Speeds are  *)
(* stored in hundredths of a metre per second.  In half of the tracks the  *)
(* third sample lacks altitude and speed.                                  *)
(***************************************************************************)
NumBlocks == 3

BlockLen == 4

\* << seconds between samples, metres climbed per sample, speed in cm/s >>
ChartKinds ==
  {<<1, 0, 0>>, <<1, 1, 100>>, <<10, 5, 300>>, <<10, 0 - 6, 20>>, <<0, 0, 5>>}

ChartLen == NumBlocks * BlockLen

BlockOf(k) == ((k - 1) \div BlockLen) + 1

MakeTrack(kinds, len, drop) ==
  LET T[k \in 1..ChartLen] ==
        IF k = 1 THEN 0 ELSE T[k - 1] + kinds[BlockOf(k)][1]
      A[k \in 1..ChartLen] ==
        IF k = 1 THEN 0 ELSE A[k - 1] + kinds[BlockOf(k)][2]
  IN [k \in 1..len |->
        [elapsedTime |-> T[k],
         altitude |-> IF drop /\ k = 3 THEN Null ELSE Some(A[k]),
         speed |-> IF drop /\ k = 3 THEN Null
                   ELSE Some(kinds[BlockOf(k)][3]),
         distance |-> Some(10 * (k - 1)),
         heartRate |-> Some(120)]]

ChartTracks ==
  {MakeTrack(kinds, len, drop) :
     kinds \in [1..NumBlocks -> ChartKinds], len \in 0..ChartLen,
     drop \in BOOLEAN}

windowSize == 5

\* The window of the point with 1-based index k of arr: the 0-based
\* Math.max(0, i - windowSize) .. Math.min(arr.length - 1, i + windowSize).
WindowLo(k) == Max(1, k - windowSize)

WindowHi(arr, k) == Min(Len(arr), k + windowSize)

(***************************************************************************)
(* ElevationAnalysisChart: the data memo.                                  *)
(***************************************************************************)
IsElevationPoint(r) == r.distance # Null /\ r.altitude # Null

distanceConversion(u) ==
  IF u = "imperial" THEN Rat(621371, 1000000000) ELSE Rat(1, 1000)

\* Mutant: the metre-to-foot factor is rounded to 3.28.
elevationConversion_Rounded(u) ==
  IF u = "imperial" THEN Rat(328, 100) ELSE RatOfInt(1)

elevationConversion(u) ==
  IF u = "imperial" THEN Rat(328084, 100000) ELSE RatOfInt(1)

\* (endP.elapsedTime - startP.elapsedTime) / 3600, in hours.
TimeDiff(arr, k) ==
  Rat(arr[WindowHi(arr, k)].elapsedTime - arr[WindowLo(k)].elapsedTime, 3600)

AltDiffMeters(arr, k) ==
  Val(arr[WindowHi(arr, k)].altitude) - Val(arr[WindowLo(k)].altitude)

\* Mutant: the guard is 0.0001 hours.
SpanIsLongEnough_Tenth(timeDiff) == RatLess(Rat(1, 10000), timeDiff)

\* timeDiff > 0.001
SpanIsLongEnough(timeDiff) == RatLess(Rat(1, 1000), timeDiff)

\* Line 55: the rate before it is clamped.
RawVam(arr, k, u) ==
  IF SpanIsLongEnough(TimeDiff(arr, k))
  THEN RatDiv(RatMul(RatOfInt(AltDiffMeters(arr, k)), elevationConversion(u)),
              TimeDiff(arr, k))
  ELSE RatOfInt(0)

vamLimit(u) == IF u = "imperial" THEN 6000 ELSE 2000

\* Mutant: only the upper bound is enforced.
ClampVam_UpperOnly(vam, u) ==
  IF RatLess(RatOfInt(vamLimit(u)), vam) THEN RatOfInt(vamLimit(u)) ELSE vam

\* Lines 58-60.
ClampVam(vam, u) ==
  IF RatLess(RatOfInt(vamLimit(u)), vam) THEN RatOfInt(vamLimit(u))
  ELSE IF RatLess(vam, RatOfInt(0 - vamLimit(u)))
       THEN RatOfInt(0 - vamLimit(u))
  ELSE vam

ElevationPointOf(arr, k, u) ==
  [distance |-> RatMul(RatOfInt(Val(arr[k].distance)), distanceConversion(u)),
   altitude |-> RatMul(RatOfInt(Val(arr[k].altitude)), elevationConversion(u)),
   vam |-> ClampVam(RawVam(arr, k, u), u)]

ElevationData(recs, u) ==
  LET points == SelectSeq(recs, IsElevationPoint)
      arr == ElevationSampled(points)
  IN [k \in 1..Len(arr) |-> ElevationPointOf(arr, k, u)]

(***************************************************************************)
(* PaceHeartRateChart: the data memo.                                      *)
(***************************************************************************)
\* Mutant: samples without a speed pass the filter.
IsPacePoint_NoSpeedTest(r) == r.distance # Null /\ r.heartRate # Null

IsPacePoint(r) == r.distance # Null /\ r.heartRate # Null /\ r.speed # Null

paceMeters(u) == IF u = "imperial" THEN Rat(160934, 100) ELSE RatOfInt(1000)

\* The loop of lines 228-233 from index j on; sumSpeed is kept in the unit
\* of the samples, hundredths of a metre per second.
RECURSIVE SpeedLoop(_, _, _, _, _)
SpeedLoop(arr, j, hi, sumSpeed, count) ==
  IF j > hi THEN [sumSpeed |-> sumSpeed, count |-> count]
  ELSE IF Truthy(arr[j].speed)
       THEN SpeedLoop(arr, j + 1, hi, sumSpeed + Val(arr[j].speed), count + 1)
  ELSE SpeedLoop(arr, j + 1, hi, sumSpeed, count)

\* Line 234: count > 0 ? sumSpeed / count : 0, in metres per second.
AvgSpeed(arr, k) ==
  LET end == SpeedLoop(arr, WindowLo(k), WindowHi(arr, k), 0, 0)
  IN IF end.count > 0 THEN Rat(end.sumSpeed, 100 * end.count)
     ELSE RatOfInt(0)

\* Line 237: the pace before it is capped.
RawPace(avgSpeed, u) ==
  IF RatLess(Rat(1, 10), avgSpeed)
  THEN RatDiv(RatDiv(paceMeters(u), avgSpeed), RatOfInt(60))
  ELSE RatOfInt(0)

\* Mutant: the pace is not capped.
CapPace_None(pace) == pace

\* Line 240.
CapPace(pace) == IF RatLess(RatOfInt(20), pace) THEN RatOfInt(20) ELSE pace

PacePointOf(arr, k, u) ==
  LET avgSpeed == AvgSpeed(arr, k)
  IN [distance |-> RatMul(RatOfInt(Val(arr[k].distance)), distanceConversion(u)),
      heartRate |-> arr[k].heartRate,
      pace |-> CapPace(RawPace(avgSpeed, u)),
      rawSpeed |-> avgSpeed]

PaceData(recs, u) ==
  LET points == SelectSeq(recs, IsPacePoint)
      arr == PaceSampled(points)
  IN [k \in 1..Len(arr) |-> PacePointOf(arr, k, u)]

(***************************************************************************)
(* The two memos as a state machine: each is computed once for the track   *)
(* and the unit system of the page.                                        *)
(***************************************************************************)
InitChart ==
  /\ units \in {"metric", "imperial"}
  /\ track \in ChartTracks
  /\ elevationData = Null
  /\ paceData = Null
  /\ chartData = Null
  /\ HillAtRest /\ DownAtRest /\ ZoneAtRest /\ PagesAtRest

ComputeElevationData ==
  /\ units # "rest"
  /\ elevationData = Null
  /\ elevationData' = Some(ElevationData(track, units))
  /\ UNCHANGED << units, track, paceData, chartData >>
  /\ UNCHANGED << hillVars, downVars, zoneVars, pageVars >>

ComputePaceData ==
  /\ units # "rest"
  /\ paceData = Null
  /\ paceData' = Some(PaceData(track, units))
  /\ UNCHANGED << units, track, elevationData, chartData >>
  /\ UNCHANGED << hillVars, downVars, zoneVars, pageVars >>

NextChart == ComputeElevationData \/ ComputePaceData

SpecChart == InitChart /\ [][NextChart]_vars

(***************************************************************************)
(* Reference notions for the charts.                                       *)
(***************************************************************************)
\* The arrays the estimators run over.
PaceArr == PaceSampled(SelectSeq(track, IsPacePoint))

ElevationArr == ElevationSampled(SelectSeq(track, IsElevationPoint))

PaceComputed == units # "rest" /\ paceData # Null

ElevationComputed == units # "rest" /\ elevationData # Null

PresentInWindow(arr, k) ==
  {j \in WindowLo(k)..WindowHi(arr, k) : arr[j].speed # Null}

RECURSIVE SumOfSpeeds(_, _)
SumOfSpeeds(arr, S) ==
  IF S = {} THEN 0
  ELSE LET j == CHOOSE x \in S : TRUE
       IN Val(arr[j].speed) + SumOfSpeeds(arr, S \ {j})

\* The arithmetic mean, in m/s, of the speeds present in the window.
RefMean(arr, k) ==
  IF PresentInWindow(arr, k) = {} THEN RatOfInt(0)
  ELSE Rat(SumOfSpeeds(arr, PresentInWindow(arr, k)),
           100 * Cardinality(PresentInWindow(arr, k)))

\* The pace, in minutes per kilometre or mile, that belongs to a speed.
RefPace(v, u) ==
  IF RatLess(Rat(1, 10), v)
  THEN RatMul(paceMeters(u), << v[2], v[1] * 60 >>)
  ELSE RatOfInt(0)

Span(arr, k) == arr[WindowHi(arr, k)].elapsedTime - arr[WindowLo(k)].elapsedTime

\* Altitude difference over time span in hours, in the units of the page.
RefRate(arr, k, u) ==
  RatMul(Rat(AltDiffMeters(arr, k) * 3600, Span(arr, k)), elevationConversion(u))

RefClamp(r, L) ==
  IF RatLess(RatOfInt(L), r) THEN RatOfInt(L)
  ELSE IF RatLess(r, RatOfInt(0 - L)) THEN RatOfInt(0 - L)
  ELSE r

RateLimit(u) == IF u = "imperial" THEN 6000 ELSE 2000

\* C14: the average speed of a point of the pace chart is the arithmetic mean
\* of the speeds that are present in its window of up to five points on each
\* side; a speed of 0 counts in the sum and in the divisor.
C14_TrueMeanOfPresentSpeeds ==
  PaceComputed =>
    LET arr == PaceArr
        data == Val(paceData)
    IN \A k \in 1..Len(arr) : data[k].rawSpeed = RefMean(arr, k)

\* C15: whenever the mean speed of the window is below 0.1 m/s the pace is
\* the stationary value 0.
C15_StationaryBelowThreshold ==
  PaceComputed =>
    LET arr == PaceArr
        data == Val(paceData)
    IN \A k \in 1..Len(arr) :
         RatLess(RefMean(arr, k), Rat(1, 10)) => data[k].pace = RatOfInt(0)

\* C16: the pace chart has one point per downsampled point, every pace is
\* between 0 and 20, and a pace above 20 is reported as 20.
C16_PaceCappedNotDropped ==
  PaceComputed =>
    LET arr == PaceArr
        data == Val(paceData)
    IN /\ Len(data) = Len(arr)
       /\ \A k \in 1..Len(arr) :
            LET p == data[k]
                uncapped == RefPace(p.rawSpeed, units)
            IN /\ p.distance = RatMul(RatOfInt(Val(arr[k].distance)),
                                      distanceConversion(units))
               /\ ~RatLess(p.pace, RatOfInt(0))
               /\ ~RatLess(RatOfInt(20), p.pace)
               /\ p.pace = IF RatLess(RatOfInt(20), uncapped)
                           THEN RatOfInt(20) ELSE uncapped

C16_Witness ==
  /\ PaceComputed
  /\ \E k \in 1..Len(PaceArr) :
       /\ Val(paceData)[k].pace = RatOfInt(20)
       /\ RatLess(RatOfInt(20), RefPace(Val(paceData)[k].rawSpeed, units))
  /\ \E k \in 1..Len(PaceArr) :
       /\ RatLess(RatOfInt(0), Val(paceData)[k].pace)
       /\ RatLess(Val(paceData)[k].pace, RatOfInt(20))

C18_RateClamped ==
  ElevationComputed =>
    LET arr == ElevationArr
        data == Val(elevationData)
        L == RateLimit(units)
    IN /\ Len(data) = Len(arr)
       /\ \A k \in 1..Len(arr) :
            LET v == data[k].vam
            IN /\ ~RatLess(RatOfInt(L), v)
               /\ ~RatLess(v, RatOfInt(0 - L))
               /\ Span(arr, k) >= 4 =>
                    LET r == RefRate(arr, k, units)
                    IN /\ RatLess(RatOfInt(L), r) => v = RatOfInt(L)
                       /\ RatLess(r, RatOfInt(0 - L)) => v = RatOfInt(0 - L)

C18_Witness ==
  /\ ElevationComputed
  /\ \E k \in 1..Len(ElevationArr) :
       /\ Span(ElevationArr, k) >= 4
       /\ RatLess(RatOfInt(RateLimit(units)), RefRate(ElevationArr, k, units))
       /\ Val(elevationData)[k].vam = RatOfInt(RateLimit(units))
  /\ \E k \in 1..Len(ElevationArr) :
       /\ Span(ElevationArr, k) >= 4
       /\ RatLess(RefRate(ElevationArr, k, units), RatOfInt(0 - RateLimit(units)))
       /\ Val(elevationData)[k].vam = RatOfInt(0 - RateLimit(units))

MetreToFoot == Rat(328084, 100000)

KilometreToMile == Rat(160934, 100000)

ZoneLen == 4

ZoneKeys == {"zone1", "zone2", "zone3", "zone4", "zone5"}

\* The labels and recording intervals of the series that are explored.
ZoneLabels == {Null, Some("zone1"), Some("zone2"), Some("zone5")}

ZoneGaps == {0, 1, 7}

MakeZoneSeries(labels, gaps) ==
  LET T[k \in 1..Len(labels)] == IF k = 1 THEN 0 ELSE T[k - 1] + gaps[k - 1]
  IN [k \in 1..Len(labels) |-> [elapsedTime |-> T[k], zone |-> labels[k]]]

ZeroTally == [z \in ZoneKeys |-> 0]

\* Mutant: the interval goes to the zone of its later sample.
ZoneOfInterval_Later(zs, k) == zs[k + 1].zone

\* The zone that receives the interval between samples k and k + 1.
ZoneOfInterval(zs, k) == zs[k].zone

AddInterval(t, zs, k) ==
  LET delta == zs[k + 1].elapsedTime - zs[k].elapsedTime
      label == ZoneOfInterval(zs, k)
  IN IF label = Null THEN t
     ELSE [t EXCEPT ![Val(label)] = @ + delta]

InitZone ==
  /\ \E n \in 1..ZoneLen :
       \E labels \in [1..n -> ZoneLabels], gaps \in [1..(n - 1) -> ZoneGaps] :
         zoneSeries = MakeZoneSeries(labels, gaps)
  /\ zi = 1
  /\ tally = ZeroTally
  /\ HillAtRest /\ DownAtRest /\ ChartAtRest /\ PagesAtRest

\* One consecutive pair of samples.
ZoneStep ==
  /\ zi < Len(zoneSeries)
  /\ tally' = AddInterval(tally, zoneSeries, zi)
  /\ zi' = zi + 1
  /\ UNCHANGED << zoneSeries, hillVars, downVars, chartVars, pageVars >>

NextZone == ZoneStep

SpecZone == InitZone /\ [][NextZone]_vars

ZoneDone == zoneSeries # << >> /\ zi = Len(zoneSeries)

RECURSIVE SumTally(_, _)
SumTally(t, Z) ==
  IF Z = {} THEN 0
  ELSE LET z == CHOOSE x \in Z : TRUE IN t[z] + SumTally(t, Z \ {z})

\* The time of the intervals before sample k whose earlier sample is in z.
RECURSIVE RefZoneTime(_, _, _)
RefZoneTime(zs, z, k) ==
  IF k <= 1 THEN 0
  ELSE RefZoneTime(zs, z, k - 1)
       + (IF zs[k - 1].zone = Some(z)
          THEN zs[k].elapsedTime - zs[k - 1].elapsedTime ELSE 0)

EarlierSamplesLabelled(zs) == \A k \in 1..(Len(zs) - 1) : zs[k].zone # Null

\* C20: when the earlier sample of every consecutive pair carries a zone
\* label, the five entries of the tally add up to the time between the first
\* and the last sample, and each zone holds the time of the intervals whose
\* earlier sample is in that zone; the last sample closes no interval.
C20_TallyConservesTime ==
  (ZoneDone /\ EarlierSamplesLabelled(zoneSeries)) =>
    /\ SumTally(tally, ZoneKeys) =
         zoneSeries[Len(zoneSeries)].elapsedTime - zoneSeries[1].elapsedTime
    /\ \A z \in ZoneKeys :
         tally[z] = RefZoneTime(zoneSeries, z, Len(zoneSeries))

C20_Witness ==
  /\ ZoneDone
  /\ Len(zoneSeries) = ZoneLen
  /\ EarlierSamplesLabelled(zoneSeries)
  /\ zoneSeries[Len(zoneSeries)].zone = Null
  /\ tally["zone1"] > 0
  /\ tally["zone5"] > 0

(***************************************************************************)
(* Inputs without usable samples.  A bare track has up to MaxBareLen       *)
(* samples ten seconds apart; all its samples lack one field (or none),    *)
(* its odd samples lack one more field (or none) and its even samples lack *)
(* one more field (or none), so that a field can be missing everywhere, or *)
(* every sample can fail a filter although each of its fields is present   *)
(* somewhere.  The four memos of the detail page are computed on it in any *)
(* order.                                                                  *)
(***************************************************************************)
MaxBareLen == 22

SampleFields == {"altitude", "heartRate", "speed", "distance"}

BareAltitude(k) == IF k <= 12 THEN 5 * (k - 1) ELSE 5 * (23 - k)

BareValue(f, k) ==
  IF f = "altitude" THEN BareAltitude(k)
  ELSE IF f = "heartRate" THEN 120 + Abs(12 - k)
  ELSE IF f = "speed" THEN 100
  ELSE 10 * (k - 1)

MakeBareTrack(len, lackAll, lackOdd, lackEven) ==
  LET Lacks(f, k) ==
        f = lackAll \/ (IF k % 2 = 1 THEN f = lackOdd ELSE f = lackEven)
      Field(f, k) == IF Lacks(f, k) THEN Null ELSE Some(BareValue(f, k))
  IN [k \in 1..len |->
        [elapsedTime |-> 10 * (k - 1),
         altitude |-> Field("altitude", k),
         heartRate |-> Field("heartRate", k),
         speed |-> Field("speed", k),
         distance |-> Field("distance", k)]]

(***************************************************************************)
(* HeartRateRecoveryTable: the chartData memo.                             *)
(***************************************************************************)
IsProfilePoint(r) == r.altitude # Null /\ r.distance # Null

\* km to mi
distConv(u) == IF u = "imperial" THEN Rat(621371, 1000000) ELSE RatOfInt(1)

ProfilePointOf(r, u) ==
  [distance |-> RatMul(Rat(Val(r.distance), 1000), distConv(u)),
   altitude |-> RatMul(RatOfInt(Val(r.altitude)), elevationConversion(u))]

ChartData(recs, u) ==
  LET arr == ProfileSampled(SelectSeq(recs, IsProfilePoint))
  IN [k \in 1..Len(arr) |-> ProfilePointOf(arr[k], u)]

(***************************************************************************)
(* The divisions and modulos a memo evaluates.  The callback of            *)
(* arr.filter((_, i) => i % step === 0) runs once per element of arr, and  *)
(* the callback of sampled.map once per element of sampled.                *)
(***************************************************************************)
FilterTakesModuloByZero(arr, step) == Len(arr) > 0 /\ step = 0

IsZero(q) == q[1] = 0

\* Lines 33-34 and 55 of ElevationAnalysisChart.
ElevationDividesByZero(recs, u) ==
  LET points == SelectSeq(recs, IsElevationPoint)
      arr == ElevationSampled(points)
  IN \/ FilterTakesModuloByZero(points,
                                CeilDiv(Len(points), elevationMaxPoints))
     \/ \E k \in 1..Len(arr) :
          SpanIsLongEnough(TimeDiff(arr, k)) /\ IsZero(TimeDiff(arr, k))

\* Lines 212-213, 234 and 237 of PaceHeartRateChart.
PaceDividesByZero(recs, u) ==
  LET points == SelectSeq(recs, IsPacePoint)
      arr == PaceSampled(points)
  IN \/ FilterTakesModuloByZero(points, CeilDiv(Len(points), paceMaxPoints))
     \/ \E k \in 1..Len(arr) :
          LET end == SpeedLoop(arr, WindowLo(k), WindowHi(arr, k), 0, 0)
          IN \/ end.count > 0 /\ end.count = 0
             \/ RatLess(Rat(1, 10), AvgSpeed(arr, k))
                  /\ IsZero(AvgSpeed(arr, k))

\* Lines 180 and 187-189 of HeartRateRecoveryTable.
ProfileDividesByZero(recs) ==
  LET vr == SelectSeq(recs, IsProfilePoint)
  IN /\ Len(vr) # 0
     /\ FilterTakesModuloByZero(vr, Max(1, FloorDiv(Len(vr), profileMaxPoints)))

InitBare ==
  /\ units \in {"metric", "imperial"}
  /\ \E len \in 0..MaxBareLen :
       \E lackAll \in SampleFields \cup {"none"} :
         \E lackOdd \in SampleFields \cup {"none"} :
           \E lackEven \in SampleFields \cup {"none"} :
             track = MakeBareTrack(len, lackAll, lackOdd, lackEven)
  /\ records = track
  /\ elevationData = Null
  /\ paceData = Null
  /\ chartData = Null
  /\ validRecords = << >>
  /\ pc = "filter"
  /\ i = 1
  /\ peaks = << >>
  /\ hillPeakData = << >>
  /\ result = << >>
  /\ DownAtRest /\ ZoneAtRest /\ PagesAtRest

ComputeChartData ==
  /\ units # "rest"
  /\ chartData = Null
  /\ chartData' = Some(ChartData(track, units))
  /\ UNCHANGED << units, track, elevationData, paceData >>
  /\ UNCHANGED << hillVars, downVars, zoneVars, pageVars >>

NextBare ==
  \/ ComputeElevationData
  \/ ComputePaceData
  \/ ComputeChartData
  \/ FilterRecords
  \/ ScanStep
  \/ ComputeRecovery
  \/ FilterPeaks

SpecBare == InitBare /\ [][NextBare]_vars

\* No sample of recs has all the fields of F.
NoUsableSample(recs, F) ==
  \A k \in 1..Len(recs) : \E f \in F : recs[k][f] = Null

\* C21: when no sample of the input is usable by a memo (the list is empty,
\* or every sample lacks a field the memo asks for), the memo returns an
\* empty list and evaluates no division or modulo by zero; this holds for
\* the elevation points, the pace points, the elevation profile and the
\* hill peaks.
C21_NoSamplesGiveEmpty ==
  /\ (elevationData # Null /\ NoUsableSample(track, {"distance", "altitude"}))
       => /\ Val(elevationData) = << >>
          /\ ~ElevationDividesByZero(track, units)
  /\ (paceData # Null
        /\ NoUsableSample(track, {"distance", "heartRate", "speed"}))
       => /\ Val(paceData) = << >>
          /\ ~PaceDividesByZero(track, units)
  /\ (chartData # Null /\ NoUsableSample(track, {"altitude", "distance"}))
       => /\ Val(chartData) = << >>
          /\ ~ProfileDividesByZero(track)
  /\ (pc = "done" /\ NoUsableSample(records, {"altitude", "heartRate"}))
       => peaks = << >> /\ result = << >>

\* Witness: the four memos have run on a track of twenty samples or more
\* without any altitude, whose odd samples lack the distance and whose even
\* samples lack the speed.
C21_Witness ==
  /\ Len(track) >= minValidRecords
  /\ \A k \in 1..Len(track) :
       /\ track[k].altitude = Null
       /\ track[k].heartRate # Null
       /\ (track[k].distance = Null) # (track[k].speed = Null)
  /\ \E k \in 1..Len(track) : track[k].distance # Null
  /\ \E k \in 1..Len(track) : track[k].speed # Null
  /\ elevationData = Some(<< >>)
  /\ paceData = Some(<< >>)
  /\ chartData = Some(<< >>)
  /\ pc = "done"
  /\ result = << >>

(***************************************************************************)
(* The emitted records against the accepted peaks.                         *)
(***************************************************************************)
ResultIndices == {result[k].index : k \in 1..Len(result)}

\* The peak accepted last before index j, as an option.
LastPeakBefore(j) ==
  LET before == PeaksBefore(j)
  IN IF before = << >> THEN Null ELSE Some(before[Len(before)])

\* Index j passes the first two tests and is less than 120 s after the peak
\* accepted last before it.
SuppressedBy(vr, j, p) ==
  /\ PassesFirstTwoTests(vr, j)
  /\ LastPeakBefore(j) = Some(p)
  /\ Time(vr, j) - Time(vr, p) < 120

\* C28: the emitted recovery records are the records of accepted peaks, in
\* the order of acceptance and without repetition, and a candidate that is
\* less than 120 s after the last accepted peak is not emitted (nor
\* accepted), also when that peak is dropped for lack of recovery data.
C28_SpacingIgnoresLaterDrop ==
  pc = "done" =>
    /\ \A k \in 1..Len(result) :
         /\ result[k].index \in PeakSet
         /\ result[k] \in HillPeakSet
         /\ HasRecoveryData(result[k])
    /\ \A k, l \in 1..Len(result) :
         k < l => result[k].index < result[l].index
    /\ \A j \in 1..Len(validRecords) :
         \A p \in PeakSet :
           SuppressedBy(validRecords, j, p)
             => j \notin PeakSet /\ j \notin ResultIndices

\* Witness: the computation ended with an accepted peak that was dropped
\* for lack of recovery data after it had suppressed a candidate, and with
\* another peak emitted.
C28_Witness ==
  /\ pc = "done"
  /\ result # << >>
  /\ \E p \in PeakSet :
       /\ p \notin ResultIndices
       /\ \E j \in 1..Len(validRecords) : SuppressedBy(validRecords, j, p)

(***************************************************************************)
(* UnitsProvider (src/lib/units.tsx) and the units toggle of AppLayout.    *)
(* storage is the local-storage item "hikeiq-units" (Null when absent).    *)
(* An update from a click is rendered before the next click is handled, so *)
(* the toggle's handler reads the current units; the persistence effect of *)
(* a render runs after it, and before the next render at the latest.       *)
(* pressLog is the list of the unit systems since the mount: the initial   *)
(* one, then the one after each press; sessions counts the mounts.         *)
(***************************************************************************)
MaxPresses == 8

MaxSessions == 3

UnitSystems == {"metric", "imperial"}

\* What the item can hold when the provider mounts.
StoredValues == {Null, Some("metric"), Some("imperial"), Some("km")}

\* Mutant: an unknown stored string is taken as it is.
InitialUnits_Unchecked(stored) ==
  IF stored # Null THEN Val(stored) ELSE "metric"

\* Lines 21-29: the initialiser of useState.
InitialUnits(stored) ==
  IF stored = Some("metric") \/ stored = Some("imperial") THEN Val(stored)
  ELSE "metric"

\* AppLayout line 89: units === "metric" ? "imperial" : "metric".
Toggled(u) == IF u = "metric" THEN "imperial" ELSE "metric"

\* Lines 31-33: localStorage.setItem(STORAGE_KEY, units).
Persisted(u) == Some(u)

InitUnits ==
  /\ mounted = FALSE
  /\ unitsState = "rest"
  /\ storage \in StoredValues
  /\ effectPending = FALSE
  /\ pressLog = << >>
  /\ sessions = 0
  /\ AnalyticsAtRest
  /\ ImportAtRest /\ MapPageAtRest /\ DetailAtRest /\ LayersAtRest /\ ListAtRest

\* The provider mounts: useState's initialiser runs and the effect of the
\* first render is scheduled.
MountProvider ==
  /\ ~mounted
  /\ sessions < MaxSessions
  /\ sessions' = sessions + 1
  /\ mounted' = TRUE
  /\ unitsState' = InitialUnits(storage)
  /\ effectPending' = TRUE
  /\ pressLog' = << InitialUnits(storage) >>
  /\ UNCHANGED << storage, analyticVars, notUnitsVars >>

\* The effect of the last render runs.
PersistEffect ==
  /\ mounted
  /\ effectPending
  /\ storage' = Persisted(unitsState)
  /\ effectPending' = FALSE
  /\ UNCHANGED << mounted, unitsState, pressLog, sessions >>
  /\ UNCHANGED << analyticVars, notUnitsVars >>

\* A press of the toggle: the effect still pending from the last render is
\* run before the new render, whose own effect is then scheduled.
PressToggle ==
  /\ mounted
  /\ Len(pressLog) <= MaxPresses
  /\ storage' = IF effectPending THEN Persisted(unitsState) ELSE storage
  /\ unitsState' = Toggled(unitsState)
  /\ effectPending' = TRUE
  /\ pressLog' = Append(pressLog, Toggled(unitsState))
  /\ UNCHANGED << mounted, sessions, analyticVars, notUnitsVars >>

\* The window is closed or reloaded; an effect still pending may or may not
\* have run by then.
UnmountProvider ==
  /\ mounted
  /\ mounted' = FALSE
  /\ unitsState' = "rest"
  /\ \/ storage' = storage
     \/ effectPending /\ storage' = Persisted(unitsState)
  /\ effectPending' = FALSE
  /\ pressLog' = << >>
  /\ UNCHANGED << sessions, analyticVars, notUnitsVars >>

NextUnits == MountProvider \/ PersistEffect \/ PressToggle \/ UnmountProvider

SpecUnits == InitUnits /\ [][NextUnits]_vars

\* The step is a press of the toggle.
IsPress == mounted /\ mounted' /\ Len(pressLog') = Len(pressLog) + 1

\* The step mounts the provider.
IsMount == ~mounted /\ mounted'

C22_StepRule ==
  /\ IsPress => (unitsState' # unitsState /\ unitsState' \in UnitSystems)
  /\ IsMount =>
       unitsState' = IF storage \in {Some("metric"), Some("imperial")}
                     THEN storage[1]
                     ELSE "metric"

C22_StateRule ==
  mounted =>
    /\ unitsState \in UnitSystems
    /\ \A k \in 3..Len(pressLog) : pressLog[k] = pressLog[k - 2]
    /\ ~effectPending => storage = << unitsState >>

\* C22: the unit system of a mounted provider is metric or imperial; each
\* press of the toggle changes it and two presses restore it; once the
\* persistence effect has run the stored item is the current unit system;
\* and a provider that mounts starts with the stored item when it is
\* "metric" or "imperial", and with metric otherwise.
C22_UnitsToggleAndPersist == [][C22_StepRule]_vars /\ []C22_StateRule

\* Witness: a provider mounted for the second time has started with the
\* imperial units stored by the first, has been toggled three times and its
\* effect has run.
C22_Witness ==
  /\ mounted
  /\ sessions = 2
  /\ pressLog = << "imperial", "metric", "imperial", "metric" >>
  /\ ~effectPending
  /\ storage = Some("metric")

(***************************************************************************)
(* ImportButton and ImportProgressDialog.                                  *)
(*                                                                         *)
(* A handler runs to its end, with the render and the effects it causes,   *)
(* before the next one starts; what is asynchronous is a step of its own:  *)
(* the registration of the event listener (listen returns a promise), the  *)
(* delivery of an import-progress event, the settling of                   *)
(* api.importFitFiles and the firing of a completion timer.  The effect of *)
(* the dialog depends on [open, onComplete] and handleComplete is a new    *)
(* function at every render of ImportButton, so every such render removes  *)
(* the listener and registers a new one whose onComplete has captured the  *)
(* importedActivities of that render.  An event delivered while no         *)
(* listener is registered is lost.  The backend emits, for each file in    *)
(* turn, parsing and then either error or saving and done; the call        *)
(* settles once the last event has been emitted, whether or not that event *)
(* has been delivered.  jobs holds the imports the backend or the webview  *)
(* still has work for; imports counts the clicks.  onImportCalls lists the *)
(* arguments of the calls of onImport, and dismissed tells that the user   *)
(* has closed the dialog of the current import.  The user starts an import *)
(* when the one before has finished.                                       *)
(***************************************************************************)
MaxImports == 2

MaxFiles == 2

Outcomes == {"done", "error"}

\* The name of file idx0 of import jid, also the activity made from it.
FileName(jid, idx0) == << jid, idx0 >>

Progress(jid, n, idx0, status) ==
  [fileIndex |-> idx0,
   totalFiles |-> n,
   filename |-> FileName(jid, idx0),
   status |-> status,
   error |-> IF status = "error" THEN Some("failed") ELSE Null]

\* The events of one file.
FileScript(jid, n, idx0, outcome) ==
  IF outcome = "error"
  THEN << Progress(jid, n, idx0, "parsing"), Progress(jid, n, idx0, "error") >>
  ELSE << Progress(jid, n, idx0, "parsing"), Progress(jid, n, idx0, "saving"),
          Progress(jid, n, idx0, "done") >>

RECURSIVE ScriptFrom(_, _, _)
ScriptFrom(jid, outcomes, k) ==
  IF k > Len(outcomes) THEN << >>
  ELSE FileScript(jid, Len(outcomes), k - 1, outcomes[k])
         \o ScriptFrom(jid, outcomes, k + 1)

\* The events import jid emits, in order.
Script(jid, outcomes) == ScriptFrom(jid, outcomes, 1)

\* The activities api.importFitFiles resolves with.
RECURSIVE ResultsFrom(_, _, _)
ResultsFrom(jid, outcomes, k) ==
  IF k > Len(outcomes) THEN << >>
  ELSE (IF outcomes[k] = "done" THEN << FileName(jid, k - 1) >> ELSE << >>)
         \o ResultsFrom(jid, outcomes, k + 1)

Results(jid, outcomes) == ResultsFrom(jid, outcomes, 1)

\* An import is finished once its call has rejected, or has resolved with
\* every event delivered.
IsFinished(job) ==
  \/ job.response = "rejected"
  \/ /\ job.response = "resolved"
     /\ job.next > Len(Script(job.id, job.outcomes))

Unfinished(js) == SelectSeq(js, LAMBDA job : ~IsFinished(job))

\* The state of the dialog as one value.
Dialog ==
  [files |-> files, currentIndex |-> currentIndex,
   completedCount |-> completedCount, errorCount |-> errorCount]

SetDialog(d) ==
  /\ files' = d.files
  /\ currentIndex' = d.currentIndex
  /\ completedCount' = d.completedCount
  /\ errorCount' = d.errorCount

\* Mutant: the error count survives the reset.
ResetState_KeepErrors(d) ==
  [files |-> << >>, currentIndex |-> 0, completedCount |-> 0,
   errorCount |-> d.errorCount]

\* Lines 194-200: the effect when open is false.
ResetState(d) ==
  [files |-> << >>, currentIndex |-> 0, completedCount |-> 0, errorCount |-> 0]

PendingFile == [filename |-> "", status |-> "pending", error |-> Null]

\* Lines 212-214: while (newFiles.length <= progress.fileIndex) push.
Padded(prev, idx0) ==
  IF Len(prev) <= idx0
  THEN prev \o [k \in 1..(idx0 + 1 - Len(prev)) |-> PendingFile]
  ELSE prev

\* Lines 209-223: the updater given to setFiles.
NewFiles(prev, progress) ==
  [Padded(prev, progress.fileIndex) EXCEPT
     ![progress.fileIndex + 1] =
       [filename |-> progress.filename, status |-> progress.status,
        error |-> progress.error]]

\* Mutant: an error counts as a completed file too.
HandleProgress_ErrorCompletes(d, progress) ==
  [files |-> NewFiles(d.files, progress),
   currentIndex |-> progress.fileIndex,
   completedCount |->
     IF progress.status \in {"done", "error"} THEN d.completedCount + 1
     ELSE d.completedCount,
   errorCount |->
     IF progress.status = "error" THEN d.errorCount + 1 ELSE d.errorCount]

\* Lines 208-231: the state updates of the listener.
HandleProgress(d, progress) ==
  [files |-> NewFiles(d.files, progress),
   currentIndex |-> progress.fileIndex,
   completedCount |->
     IF progress.status = "done" THEN d.completedCount + 1
     ELSE d.completedCount,
   errorCount |->
     IF progress.status = "done" THEN d.errorCount
     ELSE IF progress.status = "error" THEN d.errorCount + 1
     ELSE d.errorCount]

\* Lines 234-235: the event that starts the completion timer.
IsFinalProgress(progress) ==
  /\ progress.fileIndex = progress.totalFiles - 1
  /\ progress.status = "done" \/ progress.status = "error"

\* The listener registered by a render of ImportButton whose
\* importedActivities are `captured`; it is not ready until listen settles.
NewListener(captured) == Some([ready |-> FALSE, captured |-> captured])

\* The render after setShowProgress(false): the cleanup removes the
\* listener and the effect resets the dialog.  Nothing is rendered when the
\* dialog is closed already.
CloseDialog ==
  /\ showProgress' = FALSE
  /\ listener' = Null
  /\ SetDialog(IF showProgress THEN ResetState(Dialog) ELSE Dialog)

InitImport ==
  /\ ImportAtRest
  /\ AnalyticsAtRest
  /\ UnitsAtRest /\ MapPageAtRest /\ DetailAtRest /\ LayersAtRest /\ ListAtRest

\* handleClick with n files picked (lines 108-122); the outcomes are what
\* the backend will make of them.
ClickImport ==
  /\ ~showProgress
  /\ imports < MaxImports
  /\ jobs = << >>
  /\ imports' = imports + 1
  /\ \E n \in 1..MaxFiles :
       \E outcomes \in [1..n -> Outcomes] :
         /\ totalFiles' = n
         /\ jobs' = Append(jobs, [id |-> imports + 1, outcomes |-> outcomes,
                                   next |-> 1, response |-> "pending"])
  /\ importedActivities' = << >>
  /\ showProgress' = TRUE
  /\ listener' = NewListener(<< >>)
  /\ dismissed' = FALSE
  /\ UNCHANGED << dialogVars, timers, onImportCalls >>
  /\ UNCHANGED << analyticVars, notImportVars >>

\* The promise of listen settles.
ListenerReady ==
  /\ listener # Null
  /\ ~Val(listener).ready
  /\ listener' = Some([Val(listener) EXCEPT !.ready = TRUE])
  /\ UNCHANGED << showProgress, totalFiles, importedActivities, dialogVars,
                  timers, jobs, onImportCalls, dismissed, imports >>
  /\ UNCHANGED << analyticVars, notImportVars >>

\* The next event of import j reaches the webview.  The last event of an
\* import can arrive after the call has settled.
DeliverEvent(j) ==
  LET job == jobs[j]
      script == Script(job.id, job.outcomes)
      progress == script[job.next]
      heard == listener # Null /\ Val(listener).ready
  IN /\ job.next <= Len(script)
     /\ job.response = "pending"
          \/ (job.response = "resolved" /\ job.next = Len(script))
     /\ jobs' = Unfinished([jobs EXCEPT ![j].next = job.next + 1])
     /\ SetDialog(IF heard THEN HandleProgress(Dialog, progress) ELSE Dialog)
     /\ timers' = IF heard /\ IsFinalProgress(progress)
                  THEN Append(timers, Val(listener).captured)
                  ELSE timers
     /\ UNCHANGED << showProgress, totalFiles, importedActivities, listener,
                     onImportCalls, dismissed, imports >>
     /\ UNCHANGED << analyticVars, notImportVars >>

\* api.importFitFiles of import j resolves (line 123): ImportButton is
\* rendered with the results, and the effect of the dialog runs again.
ResolveImport(j) ==
  LET job == jobs[j]
      results == Results(job.id, job.outcomes)
  IN /\ job.response = "pending"
     /\ job.next >= Len(Script(job.id, job.outcomes))
     /\ jobs' = Unfinished([jobs EXCEPT ![j].response = "resolved"])
     /\ importedActivities' = results
     /\ listener' = IF showProgress THEN NewListener(results) ELSE Null
     /\ SetDialog(IF showProgress THEN Dialog ELSE ResetState(Dialog))
     /\ UNCHANGED << showProgress, totalFiles, timers, onImportCalls,
                     dismissed, imports >>
     /\ UNCHANGED << analyticVars, notImportVars >>

\* api.importFitFiles of import j rejects (lines 124-127); the backend
\* emits nothing more for it.
RejectImport(j) ==
  LET job == jobs[j]
  IN /\ job.response = "pending"
     /\ jobs' = Unfinished([jobs EXCEPT ![j].response = "rejected"])
     /\ CloseDialog
     /\ UNCHANGED << totalFiles, importedActivities, timers, onImportCalls,
                     dismissed, imports >>
     /\ UNCHANGED << analyticVars, notImportVars >>

\* A completion timer fires: the handleComplete it holds runs (lines
\* 130-135) with the importedActivities of the render it was made in.
TimerFires(k) ==
  /\ k \in 1..Len(timers)
  /\ timers' = [m \in 1..(Len(timers) - 1) |->
                  IF m < k THEN timers[m] ELSE timers[m + 1]]
  /\ CloseDialog
  /\ onImportCalls' = IF Len(timers[k]) > 0
                      THEN Append(onImportCalls, timers[k])
                      ELSE onImportCalls
  /\ UNCHANGED << totalFiles, importedActivities, jobs, dismissed, imports >>
  /\ UNCHANGED << analyticVars, notImportVars >>

\* The user dismisses the dialog: onOpenChange(false) is setShowProgress.
DismissDialog ==
  /\ showProgress
  /\ CloseDialog
  /\ dismissed' = TRUE
  /\ UNCHANGED << totalFiles, importedActivities, timers, jobs,
                  onImportCalls, imports >>
  /\ UNCHANGED << analyticVars, notImportVars >>

\* The page renders ImportButton again while the dialog is open.
RenderAgain ==
  /\ showProgress
  /\ listener' = NewListener(importedActivities)
  /\ UNCHANGED << showProgress, totalFiles, importedActivities, dialogVars,
                  timers, jobs, onImportCalls, dismissed, imports >>
  /\ UNCHANGED << analyticVars, notImportVars >>

NextImport ==
  \/ ClickImport
  \/ ListenerReady
  \/ \E j \in 1..Len(jobs) : DeliverEvent(j)
  \/ \E j \in 1..Len(jobs) : ResolveImport(j)
  \/ \E j \in 1..Len(jobs) : RejectImport(j)
  \/ \E k \in 1..Len(timers) : TimerFires(k)
  \/ DismissDialog
  \/ RenderAgain

SpecImport == InitImport /\ [][NextImport]_vars

\* Nothing of the import is outstanding.
ImportQuiet ==
  /\ jobs = << >>
  /\ timers = << >>
  /\ listener = Null \/ Val(listener).ready

\* C23: however the last import-progress event, the completion timer it
\* starts and the resolution of api.importFitFiles interleave, an import
\* that resolves with a non-empty list of activities ends with exactly one
\* call of onImport, with that list, and with the progress dialog closed.
C23_ResolvedImportIsReported ==
  (/\ imports = 1
   /\ ~dismissed
   /\ ImportQuiet
   /\ importedActivities # << >>)
    => /\ onImportCalls = << importedActivities >>
       /\ ~showProgress

C27_ClosedIsReset ==
  ~showProgress =>
    /\ files = << >>
    /\ currentIndex = 0
    /\ completedCount = 0
    /\ errorCount = 0

C27_OpenRule ==
  (~showProgress /\ showProgress') =>
    /\ files' = << >>
    /\ currentIndex' = 0
    /\ completedCount' = 0
    /\ errorCount' = 0

\* C27: whenever the progress dialog is closed its file list is empty and
\* its current index, completed count and error count are 0, and a dialog
\* that opens shows an empty list and zero counts, whatever events were
\* delivered during earlier imports.
C27_ClosedDialogIsReset == [][C27_OpenRule]_vars /\ []C27_ClosedIsReset

\* Witness: the dialog of a second import has just opened, empty, after the
\* first import reported activities and counted an error.
C27_Witness ==
  /\ imports = 2
  /\ showProgress
  /\ onImportCalls # << >>
  /\ Len(jobs) = 1 /\ jobs[1].next = 1 /\ jobs[1].id = 2
  /\ files = << >>
  /\ completedCount = 0 /\ errorCount = 0

\* The step delivers the next event of import j.
IsDelivery(j) ==
  /\ jobs[j].next <= Len(Script(jobs[j].id, jobs[j].outcomes))
  /\ jobs' = Unfinished([jobs EXCEPT ![j].next = jobs[j].next + 1])

NextProgress(j) == Script(jobs[j].id, jobs[j].outcomes)[jobs[j].next]

Heard == showProgress /\ listener # Null /\ listener[1].ready

C30_DeliveryRule ==
  \A j \in 1..Len(jobs) :
    (IsDelivery(j) /\ Heard) =>
      LET p == NextProgress(j)
          slot == p.fileIndex + 1
      IN /\ completedCount' =
              completedCount + (IF p.status = "done" THEN 1 ELSE 0)
         /\ errorCount' = errorCount + (IF p.status = "error" THEN 1 ELSE 0)
         /\ Len(files') = Max(Len(files), slot)
         /\ files'[slot].filename = p.filename
         /\ files'[slot].status = p.status
         /\ \A k \in 1..Len(files') :
              k # slot =>
                files'[k] = IF k <= Len(files) THEN files[k]
                            ELSE [filename |-> "", status |-> "pending",
                                  error |-> << >>]

\* C30: while the dialog is open, a delivered event with status done adds
\* 1 to completedCount and leaves errorCount alone, one with status error
\* adds 1 to errorCount and leaves completedCount alone, one with status
\* parsing or saving changes neither; and every event writes the entry of
\* the file list at its fileIndex only, after entries missing before it
\* have been added as pending.
C30_ProgressEventFrame == [][C30_DeliveryRule]_vars

\* Witness: the events of the first of two files were lost and the error of
\* the second has been counted behind a pending entry.
C30_Witness ==
  /\ showProgress
  /\ Len(files) = 2
  /\ files[1].status = "pending"
  /\ files[2].status = "error"
  /\ errorCount = 1
  /\ completedCount = 0

(***************************************************************************)
(* MapPage (src/unnamed/part_005).  The store answers api.getActivity(id)  *)
(* with a detail whose records are a track, with a detail without records, *)
(* or with a rejection.  Every change of selectedIds starts a loadTracks    *)
(* call of its own; the call completes, and sets tracks, when all its      *)
(* requests have settled.  Calls complete in any order.                    *)
(***************************************************************************)
MaxActivities == 2

MaxToggles == 3

StoreKinds == {"track", "empty", "fails"}

\* detail.records of activity id.
RecordsOf(st, id) ==
  IF st[id] = "track"
  THEN << [activityId |-> id, elapsedTime |-> 0],
          [activityId |-> id, elapsedTime |-> 1] >>
  ELSE << >>

\* Lines 36-43: what the promise of one id resolves with.
TrackPromise(st, id) == IF st[id] = "fails" THEN << >> ELSE RecordsOf(st, id)

\* Lines 45-46: loadedTracks.filter((t) => t.length > 0).
LoadedTracks(st, ids) ==
  SelectSeq([k \in 1..Len(ids) |-> TrackPromise(st, ids[k])],
            LAMBDA t : Len(t) > 0)

\* Lines 57-65: the updater of toggleActivity; a Set keeps insertion order.
ToggledSelection(prev, id) ==
  IF \E k \in 1..Len(prev) : prev[k] = id
  THEN SelectSeq(prev, LAMBDA x : x # id)
  ELSE Append(prev, id)

\* Lines 49-53: the effect that follows a change of the selection.
AfterSelection(sel) ==
  /\ selectedIds' = sel
  /\ trackLoads' = IF Len(sel) > 0 THEN Append(trackLoads, sel) ELSE trackLoads
  /\ tracks' = IF Len(sel) > 0 THEN tracks ELSE << >>

InitMapPage ==
  /\ mapActivities = << >>
  /\ selectedIds = << >>
  /\ tracks = << >>
  /\ listPending = TRUE
  /\ trackLoads = << >>
  /\ toggles = 0
  /\ \E n \in 0..MaxActivities : store \in [1..n -> StoreKinds]
  /\ AnalyticsAtRest
  /\ UnitsAtRest /\ ImportAtRest /\ DetailAtRest /\ LayersAtRest /\ ListAtRest

\* Lines 17-23: api.listActivities resolves; the first activity is selected.
ListLoaded ==
  /\ listPending
  /\ listPending' = FALSE
  /\ mapActivities' = [k \in 1..Len(store) |-> k]
  /\ IF Len(store) > 0
     THEN AfterSelection(<< 1 >>)
     ELSE UNCHANGED << selectedIds, trackLoads, tracks >>
  /\ UNCHANGED << toggles, store, analyticVars, notMapPageVars >>

\* Lines 24-25: api.listActivities rejects.
ListFails ==
  /\ listPending
  /\ listPending' = FALSE
  /\ UNCHANGED << mapActivities, selectedIds, tracks, trackLoads, toggles,
                  store >>
  /\ UNCHANGED << analyticVars, notMapPageVars >>

\* Lines 56-66 and 95: a click on an activity of the list.
ToggleActivity(id) ==
  /\ toggles < MaxToggles
  /\ toggles' = toggles + 1
  /\ \E k \in 1..Len(mapActivities) : mapActivities[k] = id
  /\ AfterSelection(ToggledSelection(selectedIds, id))
  /\ UNCHANGED << mapActivities, listPending, store >>
  /\ UNCHANGED << analyticVars, notMapPageVars >>

\* Lines 45-46: the k-th outstanding loadTracks call completes.
CompleteLoad(k) ==
  /\ k \in 1..Len(trackLoads)
  /\ tracks' = LoadedTracks(store, trackLoads[k])
  /\ trackLoads' = [m \in 1..(Len(trackLoads) - 1) |->
                      IF m < k THEN trackLoads[m] ELSE trackLoads[m + 1]]
  /\ UNCHANGED << mapActivities, selectedIds, listPending, toggles, store >>
  /\ UNCHANGED << analyticVars, notMapPageVars >>

NextMapPage ==
  \/ ListLoaded
  \/ ListFails
  \/ \E id \in 1..MaxActivities : ToggleActivity(id)
  \/ \E k \in 1..Len(trackLoads) : CompleteLoad(k)

SpecMapPage == InitMapPage /\ [][NextMapPage]_vars

SelectedSet == {selectedIds[k] : k \in 1..Len(selectedIds)}

\* The record lists the selection stands for.
SelectedTracks == {RecordsOf(store, id) : id \in SelectedSet} \ {<< >>}

\* C24: once every outstanding request of the map page has settled, the
\* displayed tracks are exactly the non-empty record lists of the selected
\* activities, each once (none when nothing is selected), in whatever order
\* the toggles and the completions came.
C24_TracksFollowSelection ==
  (~listPending /\ trackLoads = << >>) =>
    /\ {tracks[k] : k \in 1..Len(tracks)} = SelectedTracks
    /\ Len(tracks) = Cardinality(SelectedTracks)

(***************************************************************************)
(* ActivityDetailView (src/unnamed/part_000, lines 22-69).  The view is    *)
(* mounted with an activity; the effect of lines 28-42 starts a load at     *)
(* the mount and at every change of activity.id.  A load is one             *)
(* api.getActivity request, which resolves or rejects at any later time;    *)
(* requests settle in any order.                                            *)
(***************************************************************************)
MaxDetailIds == 2

MaxChanges == 3

\* The ActivityDetail the backend holds for id.
DetailOf(id) == [id |-> id]

\* Lines 31-33: the synchronous part of load().
StartLoad(id) ==
  /\ loading' = TRUE
  /\ error' = Null
  /\ requests' = Append(requests, id)

\* The requests left when the k-th has settled.
Settled(k) ==
  [m \in 1..(Len(requests) - 1) |->
     IF m < k THEN requests[m] ELSE requests[m + 1]]

InitDetail ==
  /\ \E id \in 1..MaxDetailIds : /\ activity = Some(id)
                                 /\ requests = << id >>
  /\ detail = Null
  /\ loading = TRUE
  /\ error = Null
  /\ changes = 0
  /\ AnalyticsAtRest
  /\ UnitsAtRest /\ ImportAtRest /\ MapPageAtRest /\ LayersAtRest /\ ListAtRest

\* Line 42: the view is rendered with another activity.id.
ChangeActivity(id) ==
  /\ changes < MaxChanges
  /\ id # Val(activity)
  /\ changes' = changes + 1
  /\ activity' = Some(id)
  /\ StartLoad(id)
  /\ UNCHANGED detail
  /\ UNCHANGED << analyticVars, notDetailVars >>

\* Lines 33-34 and 38: the k-th request resolves.
LoadResolves(k) ==
  /\ k \in 1..Len(requests)
  /\ detail' = Some(DetailOf(requests[k]))
  /\ loading' = FALSE
  /\ requests' = Settled(k)
  /\ UNCHANGED << activity, error, changes >>
  /\ UNCHANGED << analyticVars, notDetailVars >>

\* Lines 35-38: the k-th request rejects.
LoadRejects(k) ==
  /\ k \in 1..Len(requests)
  /\ error' = Some("failed")
  /\ loading' = FALSE
  /\ requests' = Settled(k)
  /\ UNCHANGED << activity, detail, changes >>
  /\ UNCHANGED << analyticVars, notDetailVars >>

NextDetail ==
  \/ \E id \in 1..MaxDetailIds : ChangeActivity(id)
  \/ \E k \in 1..Len(requests) : LoadResolves(k)
  \/ \E k \in 1..Len(requests) : LoadRejects(k)

SpecDetail == InitDetail /\ [][NextDetail]_vars

\* Lines 44 and 57: the view shows the detail.
RendersDetail == ~loading /\ error = Null /\ detail # Null

MaxTracks == 2

MaxCalls == 3

Positioned == [positionLat |-> Some(40), positionLong |-> Some(0 - 74)]

NoLat == [positionLat |-> Null, positionLong |-> Some(0 - 74)]

NoLong == [positionLat |-> Some(40), positionLong |-> Null]

OnEquator == [positionLat |-> Some(0), positionLong |-> Some(0 - 74)]

\* The tracks a call may be given.
TrackShapes ==
  { << >>,
    << Positioned >>,
    << Positioned, Positioned >>,
    << Positioned, NoLat >>,
    << NoLong, Positioned, OnEquator >>,
    << Positioned, NoLat, Positioned >> }

TrackArrays == UNION {[1..n -> TrackShapes] : n \in 0..MaxTracks}

\* Lines 128-130 and 166: r.positionLat && r.positionLong.
HasPosition(r) == Truthy(r.positionLat) /\ Truthy(r.positionLong)

\* Lines 128-130: the coordinates of one track.
Coordinates(t) ==
  LET kept == SelectSeq(t, HasPosition)
  IN  [k \in 1..Len(kept) |->
         << Val(kept[k].positionLong), Val(kept[k].positionLat) >>]

\* Lines 117-124: the ids the removal loop visits.
Indices(ts) == 0..(Len(ts) - 1)

\* Lines 127-132: the ids the add loop adds.
Drawn(ts) == {n \in Indices(ts) : Len(Coordinates(ts[n + 1])) >= 2}

RECURSIVE AllCoords(_)
\* Lines 164-167: the coordinates of all the tracks, in order.
AllCoords(ts) ==
  IF ts = << >> THEN << >> ELSE Coordinates(Head(ts)) \o AllCoords(Tail(ts))

InitLayers ==
  /\ layers = {}
  /\ sources = {}
  /\ lastTracks = << >>
  /\ calls = 0
  /\ addedTwice = FALSE
  /\ fitted = Null
  /\ AnalyticsAtRest
  /\ UnitsAtRest /\ ImportAtRest /\ MapPageAtRest /\ DetailAtRest /\ ListAtRest

\* Lines 115-178: one call of addTracksToMap(map, ts).
AddTracks(ts) ==
  LET layersLeft  == layers \ Indices(ts)
      sourcesLeft == sources \ Indices(ts)
  IN  /\ calls < MaxCalls
      /\ calls' = calls + 1
      /\ lastTracks' = ts
      /\ layers' = layersLeft \cup Drawn(ts)
      /\ sources' = sourcesLeft \cup Drawn(ts)
      /\ addedTwice' = (addedTwice \/ Drawn(ts) \cap layersLeft # {}
                                   \/ Drawn(ts) \cap sourcesLeft # {})
      /\ fitted' = IF Len(ts) > 0 /\ Len(AllCoords(ts)) > 1
                   THEN Some(AllCoords(ts))
                   ELSE fitted
      /\ UNCHANGED << analyticVars, notLayerVars >>

NextLayers == \E ts \in TrackArrays : AddTracks(ts)

SpecLayers == InitLayers /\ [][NextLayers]_vars

\* The ids of the most recent array whose track has two positioned points.
TwoPointIndices ==
  {n \in Indices(lastTracks) :
     Cardinality({k \in 1..Len(lastTracks[n + 1]) :
                    HasPosition(lastTracks[n + 1][k])}) >= 2}

MaxListIds == 3

MaxDeletions == 3

\* The ids of the activities the backend holds when the page loads.
ListIds == 1..MaxListIds

\* The id the backend gives to the activity imported later.
NewIds == {MaxListIds + 1}

\* The list api.listActivities gives: the stored activities, the most
\* recent first.
LoadedList == [k \in 1..MaxListIds |-> MaxListIds + 1 - k]

Elements(l) == {l[k] : k \in 1..Len(l)}

\* Mutant: the first activity of the list is removed, whatever its id.
RemoveById_DropsHead(prev, id) == IF prev = << >> THEN << >> ELSE Tail(prev)

RECURSIVE RemoveById(_, _)
\* Line 118: prev.filter((a) => a.id !== activity.id).
RemoveById(prev, id) ==
  IF prev = << >> THEN << >>
  ELSE IF Head(prev) # id
       THEN << Head(prev) >> \o RemoveById(Tail(prev), id)
       ELSE RemoveById(Tail(prev), id)

\* The requests left when the k-th is over.
WithoutRequest(k) ==
  [m \in 1..(Len(deleting) - 1) |->
     IF m < k THEN deleting[m] ELSE deleting[m + 1]]

InitList ==
  /\ activities = LoadedList
  /\ backendIds = Elements(activities)
  /\ deleting = << >>
  /\ deletions = 0
  /\ AnalyticsAtRest
  /\ UnitsAtRest /\ ImportAtRest /\ MapPageAtRest /\ DetailAtRest
  /\ LayersAtRest

\* Lines 115-117: handleDelete is called for an activity of the list and
\* awaits api.deleteActivity.
StartDelete(id) ==
  /\ deletions < MaxDeletions
  /\ id \in Elements(activities)
  /\ deletions' = deletions + 1
  /\ deleting' = Append(deleting, [id |-> id, status |-> "pending"])
  /\ UNCHANGED << activities, backendIds >>
  /\ UNCHANGED << analyticVars, notListVars >>

\* api.deleteActivity succeeds: the backend no longer holds the activity.
BackendDeletes(k) ==
  /\ k \in 1..Len(deleting)
  /\ deleting[k].status = "pending"
  /\ deleting' = [deleting EXCEPT ![k].status = "ok"]
  /\ backendIds' = backendIds \ {deleting[k].id}
  /\ UNCHANGED << activities, deletions >>
  /\ UNCHANGED << analyticVars, notListVars >>

\* api.deleteActivity fails.
BackendRefuses(k) ==
  /\ k \in 1..Len(deleting)
  /\ deleting[k].status = "pending"
  /\ deleting' = [deleting EXCEPT ![k].status = "failed"]
  /\ UNCHANGED << activities, backendIds, deletions >>
  /\ UNCHANGED << analyticVars, notListVars >>

\* Lines 118-121: handleDelete resumes after the await.
ResumeDelete(k) ==
  /\ k \in 1..Len(deleting)
  /\ deleting[k].status # "pending"
  /\ activities' = IF deleting[k].status = "ok"
                   THEN RemoveById(activities, deleting[k].id)
                   ELSE activities
  /\ deleting' = WithoutRequest(k)
  /\ UNCHANGED << backendIds, deletions >>
  /\ UNCHANGED << analyticVars, notListVars >>

\* Lines 111-113: an import has stored a new activity, which is put in
\* front of the list.
HandleImport(id) ==
  /\ id \notin backendIds
  /\ id \notin Elements(activities)
  /\ \A k \in 1..Len(deleting) : deleting[k].id # id
  /\ activities' = << id >> \o activities
  /\ backendIds' = backendIds \cup {id}
  /\ UNCHANGED << deleting, deletions >>
  /\ UNCHANGED << analyticVars, notListVars >>

NextList ==
  \/ \E id \in ListIds \cup NewIds : StartDelete(id)
  \/ \E k \in 1..Len(deleting) : BackendDeletes(k)
  \/ \E k \in 1..Len(deleting) : BackendRefuses(k)
  \/ \E k \in 1..Len(deleting) : ResumeDelete(k)
  \/ \E id \in NewIds : HandleImport(id)

SpecList == InitList /\ [][NextList]_vars

\* l is what is left of prev when every activity with that id is taken out:
\* the others are all there, once each as before, in the order they had.
IsRemovalOf(l, prev, id) ==
  /\ Elements(l) = Elements(prev) \ {id}
  /\ Len(l) = Cardinality({p \in 1..Len(prev) : prev[p] # id})
  /\ \A a, b \in 1..Len(l) :
       a < b => \E p, q \in 1..Len(prev) :
                  p < q /\ prev[p] = l[a] /\ prev[q] = l[b]

\* The step in which the k-th delete ends.
EndsDelete(k) == k \in 1..Len(deleting) /\ deleting' = WithoutRequest(k)

\* A delete that the backend answered with success ends by taking its id,
\* and nothing else, out of the list; one that failed leaves the list as it
\* is; and the list loses nothing in any other step.
C29_StepRule ==
  /\ \A k \in 1..Len(deleting) :
       EndsDelete(k) =>
         /\ deleting[k].status \in {"ok", "failed"}
         /\ deleting[k].status = "ok" =>
              /\ IsRemovalOf(activities', activities, deleting[k].id)
              /\ deleting[k].id \notin backendIds
         /\ deleting[k].status = "failed" => activities' = activities
  /\ (\A k \in 1..Len(deleting) : ~EndsDelete(k)) =>
       /\ Len(activities') >= Len(activities)
       /\ \A p \in 1..Len(activities) :
            activities'[Len(activities') - Len(activities) + p] = activities[p]

\* C29: deleting an activity removes exactly the activity with that id from
\* the in-memory list and leaves the others and their order unchanged, only
\* after api.deleteActivity has succeeded; when the call fails the list is
\* unchanged.
C29_DeleteRemovesById == [][C29_StepRule]_vars

\* The page loaded the activities 3, 2 and 1, and two deletes have ended:
\* 2 is gone from the list and from the backend, and 3 and 1 are left, in
\* that order.
C29_Witness ==
  /\ deletions = 2
  /\ deleting = << >>
  /\ activities = << 3, 1 >>
  /\ backendIds = {1, 3}

=============================================================================
